---- MODULE Spec2Model ----
(***************************************************************************)
(* smol-kv: a multi-tenant HTTP document store over a column-family (CF)   *)
(* key-value engine.  The model follows the request path of src/main.rs:   *)
(* the auth gate (middleware.rs), the namespace resolver (namespace.rs),   *)
(* the collection/key handlers (collection.rs, key.rs), the pub/sub        *)
(* registry (sub.rs) and the backup/restore orchestrator (sst.rs).         *)
(*                                                                         *)
(* Strings are modelled as sequences of segments: the text "na-docs" is    *)
(* <<"na", "docs">>, so that format!("{}-{}", a, b) is a \o b and a        *)
(* prefix or a suffix of a name can be taken.                              *)
(***************************************************************************)
EXTENDS Integers, Sequences, FiniteSets, TLC

VARIABLES
    db,          \* the storage engine: CF name -> (key -> stored JSON value)
    files,       \* the ./backups directory: file name -> SST contents
    publishers,  \* SubscriptionManager.publishers: CF name -> channel id
    chans,       \* broadcast channels: channel id -> sequence of sent events
    sub,         \* the SSE subscriber connections
    task,        \* the request tasks (one per in-flight HTTP request)
    job,         \* the detached backup/restore tasks
    last,        \* the last request that was answered, with its response
    wrote,       \* history: per presented secret, the value it last wrote per key
    owner,       \* history: per internal name, the secret of the creation that bound it
    owed,        \* history: per subscriber, the events published while it was open
    ids,         \* the backup/restore ids handed out so far (nanoid!(21))
    hist         \* history of the backup/restore records and snapshots

vars == <<db, files, publishers, chans, sub, task, job, last, wrote, owner, owed, ids, hist>>

----------------------------------------------------------------------------
(* Names, headers, hashes                                                  *)

None == <<>>

SECRETS_CF == <<"secrets">>
BACKUPS_CF == <<"backups">>
RESTORES_CF == <<"restores">>

\* The process admin token (ADMIN_TOKEN).
AdminToken == "admin"

\* Plaintext secrets a client may send in X-SECRET-KEY.
SecretKeys == {<<"s1">>, <<"s2">>, <<"s3">>}

\* Secrets nanoid!(32) may generate when the header is absent.
GenSecrets == {<<"g1">>}

\* The first 8 hex characters of sha256(key).  A 32-bit prefix is not
\* injective: s1 and s3 stand for two secrets whose digests share it.
Prefix8(key) ==
    CASE key = <<"s1">> -> "na"
      [] key = <<"s2">> -> "nb"
      [] key = <<"s3">> -> "na"
      [] key = <<"g1">> -> "ng"
      [] key = <<"na">> -> "nc"
      [] key = <<"nb">> -> "nd"
      [] key = <<"ng">> -> "ne"
      [] OTHER -> "nz"

\* hash_collection_namespace: hex(sha256(key))[..8].
hash_collection_namespace(key) == <<Prefix8(key)>>

\* hash_secret_key: hex(sha256(secret_key)), 64 characters.  The full digest
\* is taken to be collision free: its first segment is the 8-character
\* prefix, the rest stands for the remaining 56 characters.
hash_secret_key(secret_key) == <<Prefix8(secret_key)>> \o secret_key

\* &s[..min(8, s.len())] of a stored hash.
First8(s) == IF s = <<>> THEN <<>> ELSE <<s[1]>>

----------------------------------------------------------------------------
(* JSON values                                                             *)

Num(n) == [kind |-> "number", n |-> n]
Str(s) == [kind |-> "string", s |-> s]
Obj(f) == [kind |-> "object", fields |-> f]
Arr(items) == [kind |-> "array", items |-> items]
Null == [kind |-> "null"]

\* A request body that serde_json::from_slice rejects.
Malformed == [kind |-> "malformed"]

IsObject(v) == v.kind = "object"

\* serde_json::Value::get(part): a field of an object, else nothing.
NoValue == [kind |-> "none"]

\* key::get_nested_value: follows the dot path (a sequence of parts).
RECURSIVE get_nested_value(_, _)
get_nested_value(obj, path) ==
    IF path = <<>> THEN obj
    ELSE IF IsObject(obj) /\ path[1] \in DOMAIN obj.fields
         THEN get_nested_value(obj.fields[path[1]], Tail(path))
         ELSE NoValue

\* Number::to_string of a small natural number.
Digit(n) ==
    CASE n = 0 -> "0" [] n = 1 -> "1" [] n = 2 -> "2" [] n = 3 -> "3" [] n = 4 -> "4"
      [] n = 5 -> "5" [] n = 6 -> "6" [] n = 7 -> "7" [] n = 8 -> "8" [] n = 9 -> "9"

RECURSIVE to_string(_)
to_string(n) == IF n < 10 THEN <<Digit(n)>> ELSE to_string(n \div 10) \o <<Digit(n % 10)>>

\* auth::create_secret: Secret { created_at, secret: hash_secret_key(key) }.
create_secret(secret_key) ==
    Obj([created_at |-> Str(<<"ts">>), secret |-> Str(hash_secret_key(secret_key))])

\* Whether a stored value deserializes as auth::Secret.
IsSecret(v) ==
    /\ IsObject(v)
    /\ {"created_at", "secret"} \subseteq DOMAIN v.fields
    /\ v.fields.created_at.kind = "string"
    /\ v.fields.secret.kind = "string"

----------------------------------------------------------------------------
(* Storage facade (rocksdb_client::KVStore)                                *)

cf_exists(d, cf) == cf \in DOMAIN d

\* get_cf::<Value>: Ok(value), KeyNotFound or InvalidColumnFamily.
get_cf(d, cf, k) ==
    IF ~cf_exists(d, cf) THEN [err |-> "InvalidColumnFamily", val |-> Null]
    ELSE IF k \notin DOMAIN d[cf] THEN [err |-> "KeyNotFound", val |-> Null]
    ELSE [err |-> "ok", val |-> d[cf][k]]

\* insert_cf: the CF with k bound to v; InvalidColumnFamily when it is missing.
insert_cf(d, cf, k, v) ==
    IF ~cf_exists(d, cf) THEN [err |-> "InvalidColumnFamily", db |-> d]
    ELSE [err |-> "ok",
          db |-> [d EXCEPT ![cf] = [x \in DOMAIN @ \cup {k} |-> IF x = k THEN v ELSE @[x]]]]

\* create_cf: InvalidColumnFamily when the CF exists.
create_cf(d, cf) ==
    IF cf_exists(d, cf) THEN [err |-> "InvalidColumnFamily", db |-> d]
    ELSE [err |-> "ok", db |-> [x \in DOMAIN d \cup {cf} |-> IF x = cf THEN << >> ELSE d[x]]]

\* drop_cf: InvalidColumnFamily when the CF is missing.
drop_cf(d, cf) ==
    IF ~cf_exists(d, cf) THEN [err |-> "InvalidColumnFamily", db |-> d]
    ELSE [err |-> "ok", db |-> [x \in DOMAIN d \ {cf} |-> d[x]]]

\* delete_cf: KeyNotFound when the key is absent (the facade may also treat
\* the delete as idempotent: see Delete, which draws both outcomes).
delete_cf(d, cf, k) ==
    IF ~cf_exists(d, cf) THEN [err |-> "InvalidColumnFamily", db |-> d]
    ELSE IF k \notin DOMAIN d[cf] THEN [err |-> "KeyNotFound", db |-> d]
    ELSE [err |-> "ok", db |-> [d EXCEPT ![cf] = [x \in DOMAIN @ \ {k} |-> @[x]]]]

\* batch_insert_cf: one write batch, the puts applied in list order.
RECURSIVE batch_puts(_, _, _)
batch_puts(d, cf, items) ==
    IF items = <<>> THEN d
    ELSE batch_puts(insert_cf(d, cf, items[1].key, items[1].value).db, cf, Tail(items))

batch_insert_cf(d, cf, items) ==
    IF ~cf_exists(d, cf) THEN [err |-> "InvalidColumnFamily", db |-> d]
    ELSE [err |-> "ok", db |-> batch_puts(d, cf, items)]

----------------------------------------------------------------------------
(* Requests                                                                *)

\* A request on /api/{U}[/...]: route "collection" is the 3-segment path
\* /api/{U}; "key" is /api/{U}/{K}; the others are the fixed 4th segments.
Request(method, route, U, key, secret, admin) ==
    [method |-> method, route |-> route, U |-> U, key |-> key,
     secret |-> secret, admin |-> admin]

\* PUT /api/{U} with exactly three path segments.
IsCreation(req) == req.method = "PUT" /\ req.route = "collection"

----------------------------------------------------------------------------
(* Auth gate (middleware.rs, auth.rs).  main.rs registers it after the     *)
(* resolver (.wrap(CollectionNamespace).wrap(from_fn(require_auth))), and  *)
(* the middleware registered last runs first: when the gate runs, the      *)
(* resolver has not yet attached InternalCollection to the request.        *)

verify_admin_token(req) == req.admin = AdminToken

\* The stored hash under secrets[internal], or "" (Secret::default()) when
\* the row or the CF is missing or the row is no Secret.
StoredSecret(d, internal) ==
    LET r == get_cf(d, SECRETS_CF, internal)
    IN  IF r.err = "ok" /\ IsSecret(r.val) THEN r.val.fields.secret.s ELSE <<>>

\* A variant of verify_collection_secret that compares only the first 8
\* characters of the two hashes.
verify_collection_secret_prefix(req, d, internal) ==
    IF req.secret = None THEN FALSE
    ELSE First8(StoredSecret(d, internal)) = First8(hash_secret_key(req.secret))

verify_collection_secret(req, d, internal) ==
    IF req.secret = None THEN FALSE
    ELSE StoredSecret(d, internal) = hash_secret_key(req.secret)

\* A variant of the gate's fallback that leaves the namespace out.
GateInternal_bare(req) == req.U

\* The internal name the gate checks: the fallback of middleware.rs:83-94.
GateInternal(req) ==
    IF req.secret # None THEN hash_collection_namespace(req.secret) \o req.U
    ELSE req.U

\* TRUE when the request is passed on to the resolver and the handler.
require_auth(req, d) ==
    \/ IsCreation(req)
    \/ verify_admin_token(req)
    \/ verify_collection_secret(req, d, GateInternal(req))

----------------------------------------------------------------------------
(* Namespace resolver (namespace.rs)                                       *)

\* The secret a creation request is bound to: the header's, else generated.
CreationSecret(req, gen) == IF req.secret # None THEN req.secret ELSE gen

\* A variant of the resolver that leaves the namespace out of the name.
internal_collection_unscoped(req, d, gen) == req.U

\* CollectionNamespaceMiddleware::call: the internal CF name of the request.
internal_collection(req, d, gen) ==
    IF IsCreation(req)
    THEN hash_collection_namespace(CreationSecret(req, gen)) \o req.U
    ELSE LET r == get_cf(d, SECRETS_CF, req.U)
         IN  IF r.err = "ok" /\ IsSecret(r.val)
             THEN hash_collection_namespace(First8(r.val.fields.secret.s)) \o req.U
             ELSE IF req.secret # None
                  THEN hash_collection_namespace(req.secret) \o req.U
                  ELSE req.U

----------------------------------------------------------------------------
(* Universe of the model                                                   *)

\* Request tasks and SSE clients.
Tasks == {"t1", "t2"}
Subs == {"c1", "c2"}

\* Document keys ("1", "2") and documents ({"t":1}, {"t":2}).
Keys == {<<"1">>, <<"2">>}
Docs == {Obj([t |-> Num(1)]), Obj([t |-> Num(2)])}

\* Longest _batch body.
MaxBatch == 2

\* Most events published while some subscriber is connected.
MaxEvents == 2

\* Most broadcast channels ever created.
MaxChans == 2

\* Events a broadcast channel retains for a slow receiver (20000 in sub.rs,
\* scaled down).
ChannelCap == 1

\* The backup and restore ids handed out at most.
MaxIds == 2

\* Items per storage batch of a bulk import (5000 in key.rs, scaled down).
ImportBatchSize == 2

BatchItem(k, v) == [key |-> k, value |-> v]

RECURSIVE SeqsUpTo(_, _)
SeqsUpTo(S, n) ==
    IF n = 0 THEN {<<>>}
    ELSE LET shorter == SeqsUpTo(S, n - 1)
         IN  shorter \cup {Append(q, x) : q \in {r \in shorter : Len(r) = n - 1}, x \in S}

\* The items of _batch bodies: key "1" with either document, key "2".
BatchItems ==
    {BatchItem(<<"1">>, Obj([t |-> Num(1)])), BatchItem(<<"1">>, Obj([t |-> Num(2)])),
     BatchItem(<<"2">>, Obj([t |-> Num(2)]))}

\* The _batch bodies: the arrays of at most MaxBatch items, and a body that
\* is no Vec<BatchItem>.
BatchBodies == {Arr(q) : q \in SeqsUpTo(BatchItems, MaxBatch)} \cup {Malformed}

----------------------------------------------------------------------------
(* Pub/sub registry (sub.rs)                                               *)

\* Sender::receiver_count of channel ch: the receivers that are alive.
receiver_count(ch) ==
    Cardinality({c \in Subs : sub[c].pc = "open" /\ sub[c].chan = ch})

\* A variant of has_subscribers that looks for a registry entry only.
has_subscribers_registered(cf) == cf \in DOMAIN publishers

\* SubscriptionManager::has_subscribers.
has_subscribers(cf) ==
    IF cf \in DOMAIN publishers THEN receiver_count(publishers[cf]) > 0 ELSE FALSE

\* key::Operation and sub::CollectionEvent; id is history only: publish
\* numbers the events it is called with while somebody subscribes, and
\* owed.by[c] records the number and the key of every event whose publish
\* call began while the stream of c was open on the event's collection.
CollectionEvent(operation, key, value) ==
    [operation |-> operation, key |-> key, value |-> value, id |-> 0]

\* TRUE while some SSE client is between connecting and its stream's end.
SubsActive == \E c \in Subs : sub[c].pc \in {"got", "open"}

----------------------------------------------------------------------------
(* Initial state: main.rs creates the secrets CF, initialize_backup_restore *)
(* the backups and restores CFs; nothing else exists.                      *)

IdleTask == [pc |-> "idle", cf |-> None, status |-> 0, evs |-> <<>>,
             nw |-> 0, n |-> 0, sender |-> 0]

IdleSub == [pc |-> "idle", cf |-> None, chan |-> 0, pos |-> 0, frames |-> <<>>,
            lagged |-> FALSE]

NoRequest == [method |-> "none", route |-> "none", U |-> None, key |-> None,
              secret |-> None, admin |-> FALSE, status |-> 0, out |-> None,
              quiet |-> TRUE, chain |-> 0, put |-> None]

Init ==
    /\ db = [cf \in {SECRETS_CF, BACKUPS_CF, RESTORES_CF} |-> << >>]
    /\ files = << >>
    /\ publishers = << >>
    /\ chans = << >>
    /\ sub = [c \in Subs |-> IdleSub]
    /\ task = [t \in Tasks |-> IdleTask]
    /\ job = << >>
    /\ last = NoRequest
    /\ wrote = [s \in SecretKeys \cup GenSecrets |-> << >>]
    /\ owner = << >>
    /\ owed = [seq |-> 0, by |-> [c \in Subs |-> {}]]
    /\ ids = 0
    /\ hist = [trail |-> << >>, snap |-> << >>]

----------------------------------------------------------------------------
(* Handlers: each is the handler's effect on the store d for the resolved  *)
(* internal CF, with its response and the events it hands to publish.      *)
(* writes lists the storage writes that succeeded, in order.               *)

Result(status, out, d, evs, writes) ==
    [status |-> status, out |-> out, db |-> d, evs |-> evs, writes |-> writes]

Write(op, key, value) == [op |-> op, key |-> key, value |-> value]

\* 401 from the auth gate: the handler does not run.
Unauthorized(d) == Result(401, None, d, <<>>, <<>>)

\* key::exists (HEAD /api/{U}/{K}).
key_exists(d, cf, key) ==
    IF get_cf(d, cf, key).err = "ok"
    THEN Result(200, None, d, <<>>, <<>>)
    ELSE Result(404, None, d, <<>>, <<>>)

\* key::get (GET /api/{U}/{K}).
key_get(d, cf, key) ==
    LET r == get_cf(d, cf, key)
    IN  IF r.err = "ok"
        THEN Result(200, r.val, d, <<>>, <<>>)
        ELSE Result(404, None, d, <<>>, <<>>)

\* A variant of key::create that notifies the subscribers before it looks
\* at the result of the insert.
key_create_notify_first(d, cf, key, body, io) ==
    IF body.kind = "malformed" THEN Result(400, None, d, <<>>, <<>>)
    ELSE LET r == insert_cf(d, cf, key, body)
             event == <<CollectionEvent("Create", key, body)>>
         IN  IF r.err = "InvalidColumnFamily" THEN Result(404, None, d, event, <<>>)
             ELSE IF io THEN Result(500, None, d, event, <<>>)
             ELSE Result(201, body, r.db, event, <<Write("put", key, body)>>)

\* A variant of key::create that answers 201 without storing the document.
key_create_unstored(d, cf, key, body, io) ==
    IF body.kind = "malformed" THEN Result(400, None, d, <<>>, <<>>)
    ELSE IF ~cf_exists(d, cf) THEN Result(404, None, d, <<>>, <<>>)
    ELSE IF io THEN Result(500, None, d, <<>>, <<>>)
    ELSE Result(201, body, d, <<CollectionEvent("Create", key, body)>>,
                <<Write("put", key, body)>>)

\* key::create (PUT /api/{U}/{K}); io: the engine reports an Io error.
key_create(d, cf, key, body, io) ==
    IF body.kind = "malformed" THEN Result(400, None, d, <<>>, <<>>)
    ELSE LET r == insert_cf(d, cf, key, body)
         IN  IF r.err = "InvalidColumnFamily" THEN Result(404, None, d, <<>>, <<>>)
             ELSE IF io THEN Result(500, None, d, <<>>, <<>>)
             ELSE Result(201, body, r.db,
                         <<CollectionEvent("Create", key, body)>>,
                         <<Write("put", key, body)>>)

\* A variant of key::delete that maps KeyNotFound to 404 and leaves
\* InvalidColumnFamily to become 500.
key_delete_cf_500(d, cf, key, io, idem) ==
    LET r == delete_cf(d, cf, key)
    IN  IF r.err = "InvalidColumnFamily" THEN Result(500, None, d, <<>>, <<>>)
        ELSE IF r.err = "KeyNotFound" /\ ~idem THEN Result(404, None, d, <<>>, <<>>)
        ELSE IF io THEN Result(500, None, d, <<>>, <<>>)
        ELSE Result(200, None, r.db,
                    <<CollectionEvent("Delete", key, Null)>>,
                    <<Write("del", key, Null)>>)

\* A variant of key::delete that answers 200 and leaves the key in place.
key_delete_kept(d, cf, key, io, idem) ==
    LET r == delete_cf(d, cf, key)
    IN  IF r.err = "InvalidColumnFamily" THEN Result(404, None, d, <<>>, <<>>)
        ELSE IF r.err = "KeyNotFound" /\ ~idem THEN Result(404, None, d, <<>>, <<>>)
        ELSE IF io THEN Result(500, None, d, <<>>, <<>>)
        ELSE Result(200, None, d, <<CollectionEvent("Delete", key, Null)>>,
                    <<Write("del", key, Null)>>)

\* key::delete (DELETE /api/{U}/{K}); idem: the engine accepts the delete of
\* an absent key instead of reporting KeyNotFound.
key_delete(d, cf, key, io, idem) ==
    LET r == delete_cf(d, cf, key)
    IN  IF r.err = "InvalidColumnFamily" THEN Result(404, None, d, <<>>, <<>>)
        ELSE IF r.err = "KeyNotFound" /\ ~idem THEN Result(404, None, d, <<>>, <<>>)
        ELSE IF io THEN Result(500, None, d, <<>>, <<>>)
        ELSE Result(200, None, r.db,
                    <<CollectionEvent("Delete", key, Null)>>,
                    <<Write("del", key, Null)>>)

\* The items last to first.
RECURSIVE Reversed(_)
Reversed(q) == IF q = <<>> THEN <<>> ELSE Append(Reversed(Tail(q)), q[1])

\* A variant of collection::create_batch whose write batch keeps, for a
\* repeated key, the first value of the list.
create_batch_first_wins(d, cf, body, io) ==
    IF body.kind = "malformed" THEN Result(400, None, d, <<>>, <<>>)
    ELSE LET items == body.items
             r == batch_insert_cf(d, cf, Reversed(items))
         IN  IF r.err = "InvalidColumnFamily" THEN Result(404, None, d, <<>>, <<>>)
             ELSE IF io THEN Result(500, None, d, <<>>, <<>>)
             ELSE Result(201, body, r.db,
                         [i \in 1..Len(items) |->
                             CollectionEvent("Create", items[i].key, items[i].value)],
                         [i \in 1..Len(items) |->
                             Write("put", items[i].key, items[i].value)])

\* collection::create_batch (PUT /api/{U}/_batch).
create_batch(d, cf, body, io) ==
    IF body.kind = "malformed" THEN Result(400, None, d, <<>>, <<>>)
    ELSE LET items == body.items
             r == batch_insert_cf(d, cf, items)
         IN  IF r.err = "InvalidColumnFamily" THEN Result(404, None, d, <<>>, <<>>)
             ELSE IF io THEN Result(500, None, d, <<>>, <<>>)
             ELSE Result(201, body, r.db,
                         [i \in 1..Len(items) |->
                             CollectionEvent("Create", items[i].key, items[i].value)],
                         [i \in 1..Len(items) |->
                             Write("put", items[i].key, items[i].value)])

\* format!("item_{}", absolute_index + 1).
item_key(absolute_index) == <<"item">> \o to_string(absolute_index + 1)

\* key::import_values, the key of one object item.
import_key(item, key_field, absolute_index) ==
    IF key_field = None THEN item_key(absolute_index)
    ELSE LET key_value == get_nested_value(item, key_field)
         IN  IF key_value.kind = "string" THEN key_value.s
             ELSE IF key_value.kind = "number" THEN to_string(key_value.n)
             ELSE item_key(absolute_index)

\* key::import_values, the batch prepared from one chunk: the object items
\* with their keys; index counts from 0 within the chunk.
RECURSIVE import_prepare(_, _, _, _)
import_prepare(chunk, key_field, imported_count, index) ==
    IF index >= Len(chunk) THEN <<>>
    ELSE LET item == chunk[index + 1]
             rest == import_prepare(chunk, key_field, imported_count, index + 1)
         IN  IF ~IsObject(item) THEN rest
             ELSE <<BatchItem(import_key(item, key_field, imported_count + index), item)>>
                      \o rest

\* key::import_values, the loop over items.chunks(batch_size); st carries
\* the store, imported_count, all_notifications and the writes that
\* succeeded; io is the set of chunk numbers whose batch insert fails.
RECURSIVE import_chunks(_, _, _, _, _, _, _)
import_chunks(st, cf, items, batch_size, key_field, io, chunk_no) ==
    IF items = <<>> THEN st
    ELSE LET n == IF Len(items) < batch_size THEN Len(items) ELSE batch_size
             batch_items == import_prepare(SubSeq(items, 1, n), key_field,
                                           st.imported_count, 0)
             events == [i \in 1..Len(batch_items) |->
                           CollectionEvent("Create", batch_items[i].key,
                                           batch_items[i].value)]
             ok == batch_items # <<>> /\ chunk_no \notin io
             next == [db |-> IF ok THEN batch_insert_cf(st.db, cf, batch_items).db
                             ELSE st.db,
                      imported_count |-> IF ok THEN st.imported_count + Len(batch_items)
                                         ELSE st.imported_count,
                      evs |-> st.evs \o events,
                      writes |-> IF ok
                                 THEN st.writes \o
                                      [i \in 1..Len(batch_items) |->
                                          Write("put", batch_items[i].key,
                                                batch_items[i].value)]
                                 ELSE st.writes]
         IN  import_chunks(next, cf, SubSeq(items, n + 1, Len(items)), batch_size,
                           key_field, io, chunk_no + 1)

\* key::import_values (POST /api/{U}/_import?key=key_field); body is the JSON
\* of the "file" part.  chunks(0) of an empty array panics (500).
import_values(d, cf, body, key_field, io) ==
    IF ~cf_exists(d, cf) THEN Result(404, None, d, <<>>, <<>>)
    ELSE IF body.kind = "malformed" THEN Result(400, None, d, <<>>, <<>>)
    ELSE IF body.kind # "array" THEN Result(400, None, d, <<>>, <<>>)
    ELSE IF body.items = <<>> THEN Result(500, None, d, <<>>, <<>>)
    ELSE LET items == body.items
             batch_size == IF Len(items) < ImportBatchSize THEN Len(items)
                           ELSE ImportBatchSize
             st == import_chunks([db |-> d, imported_count |-> 0, evs |-> <<>>,
                                  writes |-> <<>>],
                                 cf, items, batch_size, key_field, io, 1)
         IN  IF st.imported_count = 0 THEN Result(400, None, st.db, <<>>, <<>>)
             ELSE Result(201, Num(st.imported_count), st.db, st.evs, st.writes)

\* A variant of create that writes the secrets row of the base CF only.
collection_create_one_row(d, cf, secret_key) ==
    IF cf_exists(d, cf) THEN Result(409, None, d, <<>>, <<>>)
    ELSE LET d1 == create_cf(d, cf).db
             d2 == create_cf(d1, cf \o <<"backups">>).db
             r3 == insert_cf(d2, SECRETS_CF, cf, create_secret(secret_key))
         IN  IF r3.err # "ok" THEN Result(500, None, d2, <<>>, <<>>)
             ELSE Result(201, secret_key, r3.db, <<>>, <<>>)

\* A variant of create that writes the secrets rows before it looks for
\* the CF.
collection_create_rebind(d, cf, secret_key) ==
    LET r3 == insert_cf(d, SECRETS_CF, cf, create_secret(secret_key))
        r4 == insert_cf(r3.db, SECRETS_CF, cf \o <<"backups">>,
                        create_secret(secret_key))
    IN  IF cf_exists(d, cf) THEN Result(409, None, r4.db, <<>>, <<>>)
        ELSE Result(201, secret_key,
                    create_cf(create_cf(r4.db, cf).db, cf \o <<"backups">>).db,
                    <<>>, <<>>)

\* collection::create (PUT /api/{U}); secret_key is the SecretKey extension
\* the resolver stored.  A failed insert into the secrets CF is unwrap()ed:
\* the handler panics after the CFs were created (500).
collection_create(d, cf, secret_key) ==
    IF cf_exists(d, cf) THEN Result(409, None, d, <<>>, <<>>)
    ELSE LET d1 == create_cf(d, cf).db
             d2 == create_cf(d1, cf \o <<"backups">>).db
             r3 == insert_cf(d2, SECRETS_CF, cf, create_secret(secret_key))
             r4 == insert_cf(r3.db, SECRETS_CF, cf \o <<"backups">>,
                             create_secret(secret_key))
         IN  IF r3.err # "ok" THEN Result(500, None, d2, <<>>, <<>>)
             ELSE IF r4.err # "ok" THEN Result(500, None, r3.db, <<>>, <<>>)
             ELSE Result(201, secret_key, r4.db, <<>>, <<>>)

\* user_collection.contains("-backups"): a segment "backups" after the first.
contains_backups(name) == \E i \in 2..Len(name) : name[i] = "backups"

\* internal_collection.replace("-backups", ""): every "-backups" is removed.
replace_backups(name) ==
    IF name = <<>> THEN <<>>
    ELSE <<name[1]>> \o SelectSeq(Tail(name), LAMBDA x : x # "backups")

\* A variant of drop that drops the sibling -backups CF with the collection.
collection_drop_cascade(d, cf, U) ==
    IF ~cf_exists(d, cf) THEN Result(404, None, d, <<>>, <<>>)
    ELSE Result(200, <<"deleted">>,
                drop_cf(drop_cf(d, cf).db, cf \o <<"backups">>).db, <<>>, <<>>)

\* collection::drop (DELETE /api/{U}).
collection_drop(d, cf, U) ==
    IF ~cf_exists(d, cf) THEN Result(404, None, d, <<>>, <<>>)
    ELSE IF contains_backups(U)
         THEN IF cf_exists(d, replace_backups(cf))
              THEN Result(200, <<"refused">>, d, <<>>, <<>>)
              ELSE Result(200, <<"deleted">>, drop_cf(d, cf).db, <<>>, <<>>)
         ELSE Result(200, <<"deleted">>, drop_cf(d, cf).db, <<>>, <<>>)

----------------------------------------------------------------------------
(* Request actions.  A request runs the gate, the resolver and the handler *)
(* (Begin); a handler that publishes then walks through publish's steps.   *)

RECURSIVE ApplyWrites(_, _, _)
ApplyWrites(f, U, writes) ==
    IF writes = <<>> THEN f
    ELSE LET w == writes[1]
             g == IF w.op = "put"
                  THEN [x \in DOMAIN f \cup {<<U, w.key>>} |->
                           IF x = <<U, w.key>> THEN w.value ELSE f[x]]
                  ELSE [x \in DOMAIN f \ {<<U, w.key>>} |-> f[x]]
         IN  ApplyWrites(g, U, Tail(writes))

\* TRUE when req has the method, path and headers of the last request.
SameTarget(req) ==
    /\ last.route = req.route
    /\ last.U = req.U
    /\ last.key = req.key
    /\ last.secret = req.secret
    /\ last.admin = verify_admin_token(req)

\* History: how far the last requests got through the sequences successful
\* PUT of a key (1), successful DELETE of it (2), HEAD of it (3), and
\* successful PUT of a key (1), GET of it (4).
Chain(req, res) ==
    IF req.route = "key" /\ req.method = "PUT" /\ res.status = 201 THEN 1
    ELSE IF /\ req.route = "key" /\ req.method = "DELETE" /\ res.status = 200
            /\ last.chain = 1 /\ SameTarget(req) THEN 2
    ELSE IF /\ req.route = "key" /\ req.method = "HEAD"
            /\ last.chain = 2 /\ SameTarget(req) THEN 3
    ELSE IF /\ req.route = "key" /\ req.method = "GET"
            /\ last.chain = 1 /\ SameTarget(req) THEN 4
    ELSE 0

\* History: the body of the successful PUT that started the sequence.
ChainPut(req, res) ==
    IF Chain(req, res) = 1 THEN res.out
    ELSE IF Chain(req, res) = 4 THEN last.put
    ELSE None

\* The task takes the request: its response is res, computed by the gate,
\* the resolver (cf) and the handler.
Begin(t, req, cf, res) ==
    /\ task[t].pc = "idle"
    /\ db' = res.db
    /\ task' = [task EXCEPT ![t] =
                   IF res.evs = <<>> THEN IdleTask
                   ELSE [pc |-> "has", cf |-> cf, status |-> res.status,
                         evs |-> res.evs, nw |-> Len(res.writes), n |-> 0,
                         sender |-> 0]]
    /\ last' = [method |-> req.method, route |-> req.route, U |-> req.U,
                key |-> req.key, secret |-> req.secret,
                admin |-> verify_admin_token(req),
                status |-> res.status, out |-> res.out,
                quiet |-> (res.db = db /\ res.evs = <<>>),
                chain |-> Chain(req, res), put |-> ChainPut(req, res)]
    /\ wrote' = IF req.secret = None THEN wrote
                ELSE [wrote EXCEPT ![req.secret] = ApplyWrites(@, req.U, res.writes)]

\* History: f with x bound to v.
Bind(f, x, v) == [y \in DOMAIN f \cup {x} |-> IF y = x THEN v ELSE f[y]]

\* PUT /api/{U}
CreateCollection(t, U, secret, admin, gen) ==
    LET req == Request("PUT", "collection", U, None, secret, admin)
    IN  /\ secret = None => \A x \in DOMAIN owner : owner[x] # gen
        /\ \E cf \in {internal_collection(req, db, gen)} :
           \E res \in {IF require_auth(req, db)
                     THEN collection_create(db, cf, CreationSecret(req, gen))
                     ELSE Unauthorized(db)} :
               /\ Begin(t, req, cf, res)
               /\ owner' = IF res.status = 201
                           THEN Bind(Bind(owner, cf, CreationSecret(req, gen)),
                                     cf \o <<"backups">>, CreationSecret(req, gen))
                           ELSE owner
               /\ UNCHANGED <<files, publishers, chans, sub, job, owed, ids, hist>>

\* DELETE /api/{U}
DropCollection(t, U, secret, admin) ==
    LET req == Request("DELETE", "collection", U, None, secret, admin)
    IN  \E cf \in {internal_collection(req, db, None)} :
        \E res \in {IF require_auth(req, db) THEN collection_drop(db, cf, U)
                  ELSE Unauthorized(db)} :
            /\ Begin(t, req, cf, res)
            /\ UNCHANGED <<files, publishers, chans, sub, job, owner, owed, ids, hist>>

\* PUT /api/{U}/{K}
KeyPut(t, U, key, secret, admin, body, io) ==
    LET req == Request("PUT", "key", U, key, secret, admin)
    IN  \E cf \in {internal_collection(req, db, None)} :
        \E res \in {IF require_auth(req, db)
                  THEN key_create(db, cf, key, body, io)
                  ELSE Unauthorized(db)} :
            /\ Begin(t, req, cf, res)
            /\ UNCHANGED <<files, publishers, chans, sub, job, owner, owed, ids, hist>>

\* GET /api/{U}/{K}
KeyGet(t, U, key, secret, admin) ==
    LET req == Request("GET", "key", U, key, secret, admin)
    IN  \E cf \in {internal_collection(req, db, None)} :
        \E res \in {IF require_auth(req, db) THEN key_get(db, cf, key) ELSE Unauthorized(db)} :
            /\ Begin(t, req, cf, res)
            /\ UNCHANGED <<files, publishers, chans, sub, job, owner, owed, ids, hist>>

\* HEAD /api/{U}/{K}
KeyHead(t, U, key, secret, admin) ==
    LET req == Request("HEAD", "key", U, key, secret, admin)
    IN  \E cf \in {internal_collection(req, db, None)} :
        \E res \in {IF require_auth(req, db) THEN key_exists(db, cf, key) ELSE Unauthorized(db)} :
            /\ Begin(t, req, cf, res)
            /\ UNCHANGED <<files, publishers, chans, sub, job, owner, owed, ids, hist>>

\* DELETE /api/{U}/{K}
KeyDelete(t, U, key, secret, admin, io, idem) ==
    LET req == Request("DELETE", "key", U, key, secret, admin)
    IN  \E cf \in {internal_collection(req, db, None)} :
        \E res \in {IF require_auth(req, db)
                  THEN key_delete(db, cf, key, io, idem)
                  ELSE Unauthorized(db)} :
            /\ Begin(t, req, cf, res)
            /\ UNCHANGED <<files, publishers, chans, sub, job, owner, owed, ids, hist>>

\* PUT /api/{U}/_batch
Batch(t, U, secret, admin, body, io) ==
    LET req == Request("PUT", "_batch", U, None, secret, admin)
    IN  \E cf \in {internal_collection(req, db, None)} :
        \E res \in {IF require_auth(req, db)
                  THEN create_batch(db, cf, body, io)
                  ELSE Unauthorized(db)} :
            /\ Begin(t, req, cf, res)
            /\ UNCHANGED <<files, publishers, chans, sub, job, owner, owed, ids, hist>>

\* POST /api/{U}/_import
Import(t, U, secret, admin, body, key_field, io) ==
    LET req == Request("POST", "_import", U, None, secret, admin)
    IN  \E cf \in {internal_collection(req, db, None)} :
        \E res \in {IF require_auth(req, db)
                  THEN import_values(db, cf, body, key_field, io)
                  ELSE Unauthorized(db)} :
            /\ Begin(t, req, cf, res)
            /\ UNCHANGED <<files, publishers, chans, sub, job, owner, owed, ids, hist>>

----------------------------------------------------------------------------
(* SubscriptionManager::publish, one step per lock acquisition.            *)

\* The event the task's current publish call is about.
CurrentEvent(t) == task[t].evs[task[t].n]

\* After the publish call for event n returned: the next event, or the
\* handler returns its response and the task is free again.
AfterPublish(t, n) ==
    IF n = Len(task[t].evs) THEN IdleTask
    ELSE [task[t] EXCEPT !.pc = "has", !.n = n, !.sender = 0]

\* publish called for the next event; has_subscribers under the read lock.
\* With no subscribers publish returns at once.
PublishHas(t) ==
    /\ task[t].pc = "has"
    /\ SubsActive => owed.seq < MaxEvents
    /\ LET n == task[t].n + 1
           id == IF SubsActive THEN owed.seq + 1 ELSE 0
       IN  /\ task' = [task EXCEPT ![t] =
                          IF has_subscribers(task[t].cf)
                          THEN [@ EXCEPT !.pc = "get", !.n = n, !.evs[n].id = id]
                          ELSE AfterPublish(t, n)]
           /\ owed' = [seq |-> IF SubsActive THEN id ELSE owed.seq,
                       by |-> [c \in Subs |->
                                  IF sub[c].pc = "open" /\ sub[c].cf = task[t].cf
                                  THEN owed.by[c] \cup {[id |-> id, key |-> task[t].evs[n].key]}
                                  ELSE owed.by[c]]]
    /\ UNCHANGED <<db, files, publishers, chans, sub, job, last, wrote, owner, ids, hist>>

\* publishers.get(collection).cloned() under a second read lock.
PublishGet(t) ==
    /\ task[t].pc = "get"
    /\ task' = [task EXCEPT ![t].pc = "send",
                   ![t].sender = IF task[t].cf \in DOMAIN publishers
                                 THEN publishers[task[t].cf] ELSE 0]
    /\ UNCHANGED <<db, files, publishers, chans, sub, job, last, wrote, owner, owed, ids, hist>>

\* A variant of publish whose send waits for room, as on a bounded queue:
\* it proceeds only when no receiver is a full capacity behind.
PublishSend_bounded(t) ==
    /\ task[t].pc = "send"
    /\ \A c \in Subs :
          (sub[c].pc = "open" /\ sub[c].chan = task[t].sender)
          => Len(chans[sub[c].chan]) - sub[c].pos < ChannelCap
    /\ chans' = IF task[t].sender # 0 /\ receiver_count(task[t].sender) > 0
                THEN [chans EXCEPT ![task[t].sender] = Append(@, CurrentEvent(t))]
                ELSE chans
    /\ task' = [task EXCEPT ![t] = AfterPublish(t, task[t].n)]
    /\ UNCHANGED <<db, files, publishers, sub, job, last, wrote, owner, owed, ids, hist>>

\* sender.send(event): every live receiver of that channel gets the event;
\* with none, send fails and the event is dropped.
PublishSend(t) ==
    /\ task[t].pc = "send"
    /\ chans' = IF task[t].sender # 0 /\ receiver_count(task[t].sender) > 0
                THEN [chans EXCEPT ![task[t].sender] = Append(@, CurrentEvent(t))]
                ELSE chans
    /\ task' = [task EXCEPT ![t] = AfterPublish(t, task[t].n)]
    /\ UNCHANGED <<db, files, publishers, sub, job, last, wrote, owner, owed, ids, hist>>

Publish(t) == PublishHas(t) \/ PublishGet(t) \/ PublishSend(t)

----------------------------------------------------------------------------
(* collection::subscribe (GET /api/{U}/_subscribe) and the SSE stream.     *)
(* The workers run handlers in parallel: get_or_create_channel (under the  *)
(* registry's write lock) and sender.subscribe() (outside it) are two      *)
(* steps.                                                                  *)

\* The response to a request answered outside a request task.
Answer(req, status, quiet) ==
    [method |-> req.method, route |-> req.route, U |-> req.U, key |-> req.key,
     secret |-> req.secret, admin |-> verify_admin_token(req), status |-> status,
     out |-> None, quiet |-> quiet, chain |-> 0, put |-> None]

\* SubscriptionManager::get_or_create_channel: the registered channel when
\* it has a receiver, else a new channel that replaces it.
get_or_create_channel(cf) ==
    IF cf \in DOMAIN publishers /\ receiver_count(publishers[cf]) > 0
    THEN [chan |-> publishers[cf], publishers |-> publishers, chans |-> chans]
    ELSE [chan |-> Len(chans) + 1,
          publishers |-> [x \in DOMAIN publishers \cup {cf} |->
                             IF x = cf THEN Len(chans) + 1 ELSE publishers[x]],
          chans |-> Append(chans, <<>>)]

\* The gate, the resolver and get_or_create_channel(internal).await.
SubscribeGet(c, U, secret, admin) ==
    LET req == Request("GET", "_subscribe", U, None, secret, admin)
        cf == internal_collection(req, db, None)
        r == get_or_create_channel(cf)
    IN  /\ sub[c].pc = "idle"
        /\ IF require_auth(req, db)
           THEN /\ r.chan <= MaxChans
                /\ publishers' = r.publishers
                /\ chans' = r.chans
                /\ sub' = [sub EXCEPT ![c] = [pc |-> "got", cf |-> cf, chan |-> r.chan,
                                              pos |-> 0, frames |-> <<>>,
                                              lagged |-> FALSE]]
                /\ UNCHANGED last
           ELSE /\ last' = Answer(req, 401, TRUE)
                /\ UNCHANGED <<publishers, chans, sub>>
        /\ UNCHANGED <<db, files, task, job, wrote, owner, owed, ids, hist>>

\* sender.subscribe(): the receiver sees what is sent from now on; the
\* handler returns the stream and drops its clone of the sender.
SubscribeOpen(c) ==
    /\ sub[c].pc = "got"
    /\ sub' = [sub EXCEPT ![c].pc = "open", ![c].pos = Len(chans[sub[c].chan])]
    /\ owed' = [owed EXCEPT !.by[c] = {}]
    /\ UNCHANGED <<db, files, publishers, chans, task, job, last, wrote, owner, ids, hist>>

\* TRUE when every Sender of channel ch is dropped: the registry holds
\* another channel, and no handler or publisher holds a clone.
Closed(ch) ==
    /\ \A cf \in DOMAIN publishers : publishers[cf] # ch
    /\ \A c \in Subs : ~(sub[c].pc = "got" /\ sub[c].chan = ch)
    /\ \A t \in Tasks : ~(task[t].pc = "send" /\ task[t].sender = ch)

\* receiver.recv() returns Ok(event): one SSE frame.
Recv(c) ==
    /\ sub[c].pc = "open"
    /\ sub[c].pos < Len(chans[sub[c].chan])
    /\ Len(chans[sub[c].chan]) - sub[c].pos <= ChannelCap
    /\ sub' = [sub EXCEPT ![c].pos = @ + 1,
                          ![c].frames = Append(@, chans[sub[c].chan][sub[c].pos + 1])]
    /\ UNCHANGED <<db, files, publishers, chans, task, job, last, wrote, owner, owed, ids, hist>>

\* A variant of the Lagged arm that breaks out of the loop: the stream ends.
RecvLagged_break(c) ==
    /\ sub[c].pc = "open"
    /\ Len(chans[sub[c].chan]) - sub[c].pos > ChannelCap
    /\ sub' = [sub EXCEPT ![c] = IdleSub]
    /\ UNCHANGED <<db, files, publishers, chans, task, job, last, wrote, owner, owed, ids, hist>>

\* receiver.recv() returns Err(Lagged(n)): the stream continues with the
\* oldest event the channel retains.
RecvLagged(c) ==
    /\ sub[c].pc = "open"
    /\ Len(chans[sub[c].chan]) - sub[c].pos > ChannelCap
    /\ sub' = [sub EXCEPT ![c].pos = Len(chans[sub[c].chan]) - ChannelCap,
                          ![c].lagged = TRUE]
    /\ UNCHANGED <<db, files, publishers, chans, task, job, last, wrote, owner, owed, ids, hist>>

\* The receiver of c is dropped: a channel without receivers frees the
\* events it retained.
DropReceiver(c) ==
    /\ sub' = [sub EXCEPT ![c] = IdleSub]
    /\ chans' = [chans EXCEPT ![sub[c].chan] =
                     IF receiver_count(sub[c].chan) = 1 THEN <<>> ELSE @]
    /\ owed' = [owed EXCEPT !.by[c] = {}]

\* receiver.recv() returns Err(Closed): the stream ends.
RecvClosed(c) ==
    /\ sub[c].pc = "open"
    /\ sub[c].pos = Len(chans[sub[c].chan])
    /\ Closed(sub[c].chan)
    /\ DropReceiver(c)
    /\ UNCHANGED <<db, files, publishers, task, job, last, wrote, owner, ids, hist>>

\* The client goes away: the stream and its receiver are dropped.
Disconnect(c) ==
    /\ sub[c].pc = "open"
    /\ DropReceiver(c)
    /\ UNCHANGED <<db, files, publishers, task, job, last, wrote, owner, ids, hist>>

----------------------------------------------------------------------------
(* Backup/restore orchestrator (sst.rs).  A record is a JSON object stored  *)
(* under its id; a file of ./backups holds the contents of a CF.            *)

\* BACKUP_DIR = "./backups".
BACKUP_DIR == <<".", "/backups">>

\* nanoid!(21): the n-th id handed out.
nanoid(n) == <<"id">> \o to_string(n)

\* OperationStatus as serde writes it.
InProgress == Str(<<"in_progress">>)
Completed == Str(<<"completed">>)
Failed == Str(<<"failed">>)

\* BackupRecord; finished_at is set together with a final status.
BackupRecord(id, collection, status, url, error) ==
    Obj([id |-> Str(id), collection |-> Str(collection), started_at |-> Str(<<"ts">>),
         finished_at |-> IF status = InProgress THEN Null ELSE Str(<<"ts">>),
         status |-> status, url |-> url, error |-> error])

\* RestoreRecord.
RestoreRecord(id, collection, status, error) ==
    Obj([id |-> Str(id), collection |-> Str(collection), started_at |-> Str(<<"ts">>),
         finished_at |-> IF status = InProgress THEN Null ELSE Str(<<"ts">>),
         status |-> status, error |-> error])

\* Whether a stored value deserializes as BackupRecord / RestoreRecord.
IsBackupRecord(v) ==
    /\ IsObject(v)
    /\ {"id", "collection", "started_at", "status"} \subseteq DOMAIN v.fields
    /\ v.fields.status \in {InProgress, Completed, Failed}

IsRestoreRecord(v) == IsBackupRecord(v)

\* updated_record: the record read back, with its final fields set.
Updated(record, status, url, error) ==
    Obj([f \in DOMAIN record.fields \cup {"finished_at", "status", "error"} |->
            CASE f = "status" -> status
              [] f = "finished_at" -> Str(<<"ts">>)
              [] f = "url" -> IF url = Null THEN record.fields[f] ELSE url
              [] f = "error" -> error
              [] OTHER -> record.fields[f]])

\* A variant of the backup path that leaves the id out of the file name.
backup_path_shared(user_collection, backup_id) ==
    BACKUP_DIR \o <<"/">> \o user_collection \o <<".sst">>

\* format!("{}/{}-{}.sst", BACKUP_DIR, user_collection, backup_id).
backup_path(user_collection, backup_id) ==
    BACKUP_DIR \o <<"/">> \o user_collection \o backup_id \o <<".sst">>

\* format!("/backups/{}-{}.sst", user_collection, backup_id).
backup_url(user_collection, backup_id) ==
    <<"/backups", "/">> \o user_collection \o backup_id \o <<".sst">>

\* format!(".{}", path).
full_path(url) == <<".">> \o url

\* format!("{internal_collection}-backups").
backup_cf(internal) == internal \o <<"backups">>

\* create_backup(cf, file_path): an SST file with the contents of the CF.
create_backup(d, fs, cf, path, io) ==
    IF ~cf_exists(d, cf) THEN [err |-> "InvalidColumnFamily", files |-> fs]
    ELSE IF io THEN [err |-> "Io", files |-> fs]
    ELSE [err |-> "ok", files |-> Bind(fs, path, d[cf])]

\* restore_backup(cf, file_path): the CF's contents replaced by the file's,
\* or the file ingested into the CF (its keys win); the facade's contract
\* allows both.
restore_backup(d, fs, cf, path, io, mode) ==
    IF ~cf_exists(d, cf) THEN [err |-> "InvalidColumnFamily", db |-> d]
    ELSE IF path \notin DOMAIN fs \/ io THEN [err |-> "Io", db |-> d]
    ELSE [err |-> "ok",
          db |-> [d EXCEPT ![cf] =
                     IF mode = "replace" THEN fs[path]
                     ELSE [k \in DOMAIN @ \cup DOMAIN fs[path] |->
                              IF k \in DOMAIN fs[path] THEN fs[path][k] ELSE @[k]]]]

\* fs::remove_file.
remove_file(fs, path) == [p \in DOMAIN fs \ {path} |-> fs[p]]

\* A record write that succeeded: the store ("backups", "restores", or
\* "own" for a {internal}-backups CF), the id and the status written.
RecordWrite(store, id, status) == [store |-> store, id |-> id, status |-> status.s[1]]

\* What a handler of sst.rs did: its response, the store and the files
\* after it, the task it spawned (None: none), its record writes in order.
Outcome(status, d, fs, spawn, writes) ==
    [status |-> status, db |-> d, files |-> fs, spawn |-> spawn, writes |-> writes]

\* A detached task, or a handler waiting for its request body.
Job(kind, pc, cf, U, path, backup) ==
    [kind |-> kind, pc |-> pc, cf |-> cf, U |-> U, path |-> path, backup |-> backup,
     result |-> FALSE]

\* sst::start_backup up to the spawn; fail: the storage call (1: the first
\* insert, 2: the second) that reports an Io error, 0 for none.
start_backup(d, fs, cf, U, backup_id, fail) ==
    LET record == BackupRecord(backup_id, U, InProgress, Null, Null)
        r1 == insert_cf(d, BACKUPS_CF, backup_id, record)
        r2 == insert_cf(r1.db, backup_cf(cf), backup_id, record)
    IN  IF ~cf_exists(d, cf) THEN Outcome(404, d, fs, None, <<>>)
        ELSE IF r1.err # "ok" \/ fail = 1 THEN Outcome(500, d, fs, None, <<>>)
        ELSE IF r2.err # "ok" \/ fail = 2
             THEN Outcome(500, r1.db, fs, None,
                          <<RecordWrite("backups", backup_id, InProgress)>>)
        ELSE Outcome(200, r2.db, fs,
                     Job("backup", "block", cf, U, backup_path(U, backup_id), None),
                     <<RecordWrite("backups", backup_id, InProgress),
                       RecordWrite("own", backup_id, InProgress)>>)

\* The two final inserts of a backup record, an error of either only
\* logged; fail = 2: the first reports an Io error.
update_both(d, cf, id, record, fail) ==
    LET r1 == IF fail = 2 THEN [err |-> "Io", db |-> d]
              ELSE insert_cf(d, BACKUPS_CF, id, record)
        r2 == insert_cf(r1.db, backup_cf(cf), id, record)
    IN  [db |-> r2.db,
         writes |-> (IF r1.err = "ok"
                     THEN <<RecordWrite("backups", id, record.fields.status)>> ELSE <<>>)
                    \o (IF r2.err = "ok"
                        THEN <<RecordWrite("own", id, record.fields.status)>> ELSE <<>>)]

\* The spawned task of start_backup after web::block returned: re-reads
\* the record and writes the final one; fail = 1: get_cf reports an error.
backup_task_update(d, fs, j, id, fail) ==
    LET g == get_cf(d, BACKUPS_CF, id)
    IN  IF g.err # "ok" \/ ~IsBackupRecord(g.val) \/ fail = 1
        THEN LET u == update_both(d, j.cf, id,
                                  BackupRecord(id, j.U, Failed, Null, Str(<<"retrieve">>)), 0)
             IN  Outcome(0, u.db, fs, None, u.writes)
        ELSE IF j.result
        THEN LET u == update_both(d, j.cf, id,
                                  Updated(g.val, Completed, Str(backup_url(j.U, id)), Null),
                                  fail)
             IN  Outcome(0, u.db, fs, None, u.writes)
        ELSE LET u == update_both(d, j.cf, id,
                                  Updated(g.val, Failed, Null, Str(<<"backup failed">>)),
                                  fail)
             IN  Outcome(0, u.db, remove_file(fs, j.path), None, u.writes)

\* sst::upload_backup up to the read of the multipart body.
upload_backup_begin(d, fs, cf, U, backup_id, fail) ==
    LET record == BackupRecord(backup_id, U, InProgress, Null, Null)
        r1 == insert_cf(d, BACKUPS_CF, backup_id, record)
        r2 == IF cf_exists(r1.db, backup_cf(cf)) THEN r1 ELSE create_cf(r1.db, backup_cf(cf))
        r3 == insert_cf(r2.db, backup_cf(cf), backup_id, record)
    IN  IF ~cf_exists(d, cf) THEN Outcome(404, d, fs, None, <<>>)
        ELSE IF r1.err # "ok" \/ fail = 1 THEN Outcome(500, d, fs, None, <<>>)
        ELSE IF r2.err # "ok" \/ r3.err # "ok" \/ fail = 2
             THEN Outcome(500, r2.db, fs, None,
                          <<RecordWrite("backups", backup_id, InProgress)>>)
        ELSE Outcome(0, r3.db, fs,
                     Job("upload", "body", cf, U, backup_path(U, backup_id), None),
                     <<RecordWrite("backups", backup_id, InProgress),
                       RecordWrite("own", backup_id, InProgress)>>)

\* The two final inserts of upload_backup: the first error is returned.
upload_update(d, cf, id, record) ==
    LET r1 == insert_cf(d, BACKUPS_CF, id, record)
        r2 == insert_cf(r1.db, backup_cf(cf), id, record)
    IN  [ok |-> r1.err = "ok" /\ r2.err = "ok",
         db |-> IF r1.err = "ok" THEN r2.db ELSE d,
         writes |-> IF r1.err # "ok" THEN <<>>
                    ELSE <<RecordWrite("backups", id, record.fields.status)>>
                         \o (IF r2.err = "ok"
                             THEN <<RecordWrite("own", id, record.fields.status)>>
                             ELSE <<>>)]

\* A variant of upload_backup's second half that answers before it writes
\* the final record.
upload_backup_end_early(d, fs, j, id, body, data) ==
    IF body = "error" THEN Outcome(500, d, fs, None, <<>>)
    ELSE IF body = "none" THEN Outcome(400, d, fs, None, <<>>)
    ELSE Outcome(201, d, Bind(fs, j.path, data), None, <<>>)

\* sst::upload_backup from the read of the body on.  body: "file" (a part
\* named file, with data), "none" (no such part), "error" (reading a chunk
\* or writing the file fails, as when the client goes away mid-upload).
upload_backup_end(d, fs, j, id, body, data) ==
    IF body = "error" THEN Outcome(500, d, fs, None, <<>>)
    ELSE IF body = "none"
    THEN LET u == upload_update(d, j.cf, id,
                                BackupRecord(id, j.U, Failed, Null, Str(<<"No file received">>)))
         IN  Outcome(IF u.ok THEN 400 ELSE 500, u.db, fs, None, u.writes)
    ELSE LET u == upload_update(d, j.cf, id,
                                BackupRecord(id, j.U, Completed,
                                             Str(backup_url(j.U, id)), Null))
         IN  Outcome(IF u.ok THEN 201 ELSE 500, u.db, Bind(fs, j.path, data), None, u.writes)

\* start_restore: the record set to failed and 400 returned; fail = 2: the
\* insert reports an Io error (500, the record stays as it is).
restore_rejected(d, fs, restore_id, U, fail) ==
    IF fail = 2
    THEN Outcome(500, d, fs, None, <<RecordWrite("restores", restore_id, InProgress)>>)
    ELSE Outcome(400,
                 insert_cf(d, RESTORES_CF, restore_id,
                           RestoreRecord(restore_id, U, Failed, Str(<<"rejected">>))).db,
                 fs, None,
                 <<RecordWrite("restores", restore_id, InProgress),
                   RecordWrite("restores", restore_id, Failed)>>)

\* A variant of start_restore that marks the restore failed when the backup
\* is not completed and then goes on to spawn the task all the same.
start_restore_no_return(d, fs, cf, U, backup_id, restore_id, fail) ==
    LET record == RestoreRecord(restore_id, U, InProgress, Null)
        r1 == insert_cf(d, RESTORES_CF, restore_id, record)
        g == get_cf(r1.db, BACKUPS_CF, backup_id)
    IN  IF ~cf_exists(d, cf) THEN Outcome(404, d, fs, None, <<>>)
        ELSE IF backup_id = None THEN Outcome(400, d, fs, None, <<>>)
        ELSE IF r1.err # "ok" \/ fail = 1 THEN Outcome(500, d, fs, None, <<>>)
        ELSE IF g.err # "ok" \/ ~IsBackupRecord(g.val)
             THEN restore_rejected(r1.db, fs, restore_id, U, fail)
        ELSE IF g.val.fields.status # Completed
             THEN LET r == restore_rejected(r1.db, fs, restore_id, U, fail)
                  IN  Outcome(200, r.db, fs,
                              Job("restore", "block", cf, U, full_path(<<>>), backup_id),
                              r.writes)
        ELSE IF g.val.fields.url.kind # "string"
             THEN restore_rejected(r1.db, fs, restore_id, U, fail)
        ELSE IF full_path(g.val.fields.url.s) \notin DOMAIN fs
             THEN restore_rejected(r1.db, fs, restore_id, U, fail)
        ELSE Outcome(200, r1.db, fs,
                     Job("restore", "block", cf, U, full_path(g.val.fields.url.s), backup_id),
                     <<RecordWrite("restores", restore_id, InProgress)>>)

\* A variant of start_restore that does not look for the backup's file
\* before it spawns the task.
start_restore_no_file_check(d, fs, cf, U, backup_id, restore_id, fail) ==
    LET record == RestoreRecord(restore_id, U, InProgress, Null)
        r1 == insert_cf(d, RESTORES_CF, restore_id, record)
        g == get_cf(r1.db, BACKUPS_CF, backup_id)
    IN  IF ~cf_exists(d, cf) THEN Outcome(404, d, fs, None, <<>>)
        ELSE IF backup_id = None THEN Outcome(400, d, fs, None, <<>>)
        ELSE IF r1.err # "ok" \/ fail = 1 THEN Outcome(500, d, fs, None, <<>>)
        ELSE IF g.err # "ok" \/ ~IsBackupRecord(g.val)
             THEN restore_rejected(r1.db, fs, restore_id, U, fail)
        ELSE IF g.val.fields.status # Completed
             THEN restore_rejected(r1.db, fs, restore_id, U, fail)
        ELSE IF g.val.fields.url.kind # "string"
             THEN restore_rejected(r1.db, fs, restore_id, U, fail)
        ELSE Outcome(200, r1.db, fs,
                     Job("restore", "block", cf, U, full_path(g.val.fields.url.s), backup_id),
                     <<RecordWrite("restores", restore_id, InProgress)>>)

\* sst::start_restore up to the spawn; backup_id = None: no backup_id
\* parameter; fail = 1: the first insert reports an Io error.
start_restore(d, fs, cf, U, backup_id, restore_id, fail) ==
    LET record == RestoreRecord(restore_id, U, InProgress, Null)
        r1 == insert_cf(d, RESTORES_CF, restore_id, record)
        g == get_cf(r1.db, BACKUPS_CF, backup_id)
    IN  IF ~cf_exists(d, cf) THEN Outcome(404, d, fs, None, <<>>)
        ELSE IF backup_id = None THEN Outcome(400, d, fs, None, <<>>)
        ELSE IF r1.err # "ok" \/ fail = 1 THEN Outcome(500, d, fs, None, <<>>)
        ELSE IF g.err # "ok" \/ ~IsBackupRecord(g.val)
             THEN restore_rejected(r1.db, fs, restore_id, U, fail)
        ELSE IF g.val.fields.status # Completed
             THEN restore_rejected(r1.db, fs, restore_id, U, fail)
        ELSE IF g.val.fields.url.kind # "string"
             THEN restore_rejected(r1.db, fs, restore_id, U, fail)
        ELSE IF full_path(g.val.fields.url.s) \notin DOMAIN fs
             THEN restore_rejected(r1.db, fs, restore_id, U, fail)
        ELSE Outcome(200, r1.db, fs,
                     Job("restore", "block", cf, U, full_path(g.val.fields.url.s), backup_id),
                     <<RecordWrite("restores", restore_id, InProgress)>>)

\* The spawned task of start_restore after web::block returned; fail = 1:
\* get_cf reports an error, fail = 2: the final insert does.
restore_task_update(d, fs, j, id, fail) ==
    LET g == get_cf(d, RESTORES_CF, id)
        record == IF g.err # "ok" \/ ~IsRestoreRecord(g.val) \/ fail = 1
                  THEN RestoreRecord(id, j.U, Failed, Str(<<"retrieve">>))
                  ELSE IF j.result THEN Updated(g.val, Completed, Null, Null)
                  ELSE Updated(g.val, Failed, Null, Str(<<"restore failed">>))
        r == insert_cf(d, RESTORES_CF, id, record)
    IN  IF fail = 2 \/ r.err # "ok" THEN Outcome(0, d, fs, None, <<>>)
        ELSE Outcome(0, r.db, fs, None,
                     <<RecordWrite("restores", id, record.fields.status)>>)

\* History: the statuses written per store and id, in order.
RECURSIVE Trail(_, _)
Trail(trail, writes) ==
    IF writes = <<>> THEN trail
    ELSE LET k == <<writes[1].store, writes[1].id>>
         IN  Trail(Bind(trail, k, (IF k \in DOMAIN trail THEN trail[k] ELSE <<>>)
                                  \o <<writes[1].status>>),
                   Tail(writes))

\* A request of sst.rs handled with outcome o, id being the id it drew
\* (status 0: the handler waits for its body and has not answered).
Settle(req, id, o) ==
    /\ db' = o.db
    /\ files' = o.files
    /\ job' = IF o.spawn = None THEN job ELSE Bind(job, id, o.spawn)
    /\ ids' = IF o.writes = <<>> THEN ids ELSE ids + 1
    /\ hist' = [hist EXCEPT !.trail = Trail(@, o.writes)]
    /\ last' = IF o.status = 0 THEN last
               ELSE Answer(req, o.status, o.db = db /\ o.files = files)
    /\ UNCHANGED <<publishers, chans, sub, task, wrote, owner, owed>>

\* A request of sst.rs that the gate answers 401.
Refuse(req) ==
    /\ last' = Answer(req, 401, TRUE)
    /\ UNCHANGED <<db, files, publishers, chans, sub, task, job, wrote, owner, owed, ids, hist>>

\* POST /api/{U}/_backup
StartBackup(U, secret, admin, fail) ==
    LET req == Request("POST", "_backup", U, None, secret, admin)
    IN  /\ ids < MaxIds
        /\ IF require_auth(req, db)
           THEN Settle(req, nanoid(ids + 1),
                       start_backup(db, files, internal_collection(req, db, None), U,
                                    nanoid(ids + 1), fail))
           ELSE Refuse(req)

\* A task or handler step: job id moves on (done: it ends).
Step(id, o, pc, result) ==
    /\ db' = o.db
    /\ files' = o.files
    /\ job' = IF pc = "done" THEN [x \in DOMAIN job \ {id} |-> job[x]]
              ELSE [job EXCEPT ![id].pc = pc, ![id].result = result]
    /\ UNCHANGED <<publishers, chans, sub, task, wrote, owner, owed, ids>>

\* web::block(create_backup) of the backup task; io: the engine reports an
\* Io error.
BackupBlock(id, io) ==
    /\ id \in DOMAIN job /\ job[id].kind = "backup" /\ job[id].pc = "block"
    /\ LET r == create_backup(db, files, job[id].cf, job[id].path, io)
       IN  /\ Step(id, [db |-> db, files |-> r.files], "update", r.err = "ok")
           /\ hist' = IF r.err = "ok"
                      THEN [hist EXCEPT !.snap = Bind(@, id, [U |-> job[id].U,
                                                              contents |-> db[job[id].cf]])]
                      ELSE hist
    /\ UNCHANGED last

\* The rest of the backup task.
BackupUpdate(id, fail) ==
    /\ id \in DOMAIN job /\ job[id].kind = "backup" /\ job[id].pc = "update"
    /\ LET o == backup_task_update(db, files, job[id], id, fail)
       IN  /\ Step(id, o, "done", FALSE)
           /\ hist' = [hist EXCEPT !.trail = Trail(@, o.writes)]
    /\ UNCHANGED last

\* POST /api/{U}/_backup/upload, up to the read of the body.
UploadBegin(U, secret, admin, fail) ==
    LET req == Request("POST", "_backup/upload", U, None, secret, admin)
    IN  /\ ids < MaxIds
        /\ IF require_auth(req, db)
           THEN \E o \in {upload_backup_begin(db, files, internal_collection(req, db, None),
                                              U, nanoid(ids + 1), fail)} :
                   /\ Settle(req, nanoid(ids + 1), o)
           ELSE Refuse(req)

\* The SST a client uploads.
UploadData == (<<"2">> :> Obj([t |-> Num(1)]))

\* POST /api/{U}/_backup/upload, from the read of the body to the response.
UploadEnd(id, body) ==
    /\ id \in DOMAIN job /\ job[id].kind = "upload"
    /\ LET o == upload_backup_end(db, files, job[id], id, body, UploadData)
       IN  /\ Step(id, o, "done", FALSE)
           /\ hist' = [hist EXCEPT !.trail = Trail(@, o.writes)]
           /\ last' = Answer(Request("POST", "_backup/upload", job[id].U, None, None, "none"),
                             o.status, o.db = db /\ o.files = files)

\* POST /api/{U}/_restore?backup_id=
StartRestore(U, secret, admin, backup_id, fail) ==
    LET req == Request("POST", "_restore", U, None, secret, admin)
    IN  /\ ids < MaxIds
        /\ IF require_auth(req, db)
           THEN Settle(req, nanoid(ids + 1),
                       start_restore(db, files, internal_collection(req, db, None), U,
                                     backup_id, nanoid(ids + 1), fail))
           ELSE Refuse(req)

\* web::block(restore_backup) of the restore task.
RestoreBlock(id, io, mode) ==
    /\ id \in DOMAIN job /\ job[id].kind = "restore" /\ job[id].pc = "block"
    /\ LET r == restore_backup(db, files, job[id].cf, job[id].path, io, mode)
       IN  Step(id, [db |-> r.db, files |-> files], "update", r.err = "ok")
    /\ UNCHANGED <<last, hist>>

\* The rest of the restore task.
RestoreUpdate(id, fail) ==
    /\ id \in DOMAIN job /\ job[id].kind = "restore" /\ job[id].pc = "update"
    /\ LET o == restore_task_update(db, files, job[id], id, fail)
       IN  /\ Step(id, o, "done", FALSE)
           /\ hist' = [hist EXCEPT !.trail = Trail(@, o.writes)]
    /\ UNCHANGED last

----------------------------------------------------------------------------
(* The key API used by tenants, one request at a time.                     *)

Names == {<<"docs">>}

\* X-SECRET-KEY: absent or one of the secrets.
SecretHeaders == SecretKeys \cup {None}

\* X-ADMIN-TOKEN of a tenant: absent.
TenantTokens == {"none"}

PutBodies == Docs \cup {Malformed}

\* Bulk imports: arrays of documents and of a value that is no object,
\* keyed by the documents' field t; an empty array; a body that is no array.
ImportBodies ==
    {Arr(<<Obj([t |-> Num(1)])>>),
     Arr(<<Obj([t |-> Num(2)]), Obj([t |-> Num(1)])>>),
     Arr(<<Str(<<"x">>), Obj([t |-> Num(2)])>>),
     Arr(<<Str(<<"x">>)>>), Arr(<<>>), Malformed, Null}

\* The secrets collections are created with; s3 is only ever presented by
\* a client that created nothing.
Tenants == {<<"s1">>, <<"s2">>}

\* What the engine does with a delete: <<io, idem>>.
DeleteOutcomes == {<<FALSE, FALSE>>, <<TRUE, FALSE>>, <<FALSE, TRUE>>}

NextKeys ==
    \/ \E U \in Names, s \in Tenants, a \in TenantTokens, g \in GenSecrets :
          CreateCollection("t1", U, s, "none", g)
    \/ \E U \in Names, k \in Keys, s \in SecretKeys, a \in TenantTokens,
          b \in PutBodies, io \in BOOLEAN :
          KeyPut("t1", U, k, s, a, b, io)
    \/ \E U \in Names, k \in Keys, s \in SecretKeys, a \in TenantTokens :
          KeyGet("t1", U, k, s, a)
    \/ \E U \in Names, k \in Keys, s \in SecretKeys, a \in TenantTokens :
          KeyHead("t1", U, k, s, a)
    \/ \E U \in Names, k \in Keys, s \in SecretKeys, a \in TenantTokens,
          o \in DeleteOutcomes :
          KeyDelete("t1", U, k, s, a, o[1], o[2])
    \/ \E U \in Names, s \in Tenants, a \in TenantTokens, b \in BatchBodies :
          Batch("t1", U, s, a, b, FALSE)
    \/ \E U \in Names, s \in Tenants, a \in TenantTokens, b \in ImportBodies,
          io \in {{}, {1}} :
          Import("t1", U, s, a, b, <<"t">>, io)
    \/ PublishHas("t1")

SpecKeys == Init /\ [][NextKeys]_vars

----------------------------------------------------------------------------
(* Properties of the key API (SpecKeys)                                    *)

\* TRUE when secret s is the one the latest creation of U under s's
\* namespace returned.
Created(s, U) ==
    LET internal == hash_collection_namespace(s) \o U
    IN  internal \in DOMAIN owner /\ owner[internal] = s

\* What the requests carrying secret s wrote under name U: key -> value.
WrittenBy(s, U) ==
    [k \in {k \in Keys : <<U, k>> \in DOMAIN wrote[s]} |-> wrote[s][<<U, k>>]]

C8_PutThenGet ==
    last.chain = 4 => (last.status = 200 /\ last.out = last.put)

\* C8 witness: a GET right after the successful PUT that replaced the
\* key's value answered the new value.
C8_Witness ==
    /\ last.chain = 4 /\ last.status = 200
    /\ last.out = Obj([t |-> Num(2)]) /\ last.key = <<"1">>

\* C9: a successful PUT of key k, then a successful DELETE of k, then a
\* HEAD of k (same headers, nothing in between) answers 404.
C9_PutDeleteHead ==
    last.chain = 3 => last.status = 404

\* C9 witness: the HEAD that ends such a sequence was answered.
C9_Witness ==
    last.chain = 3 /\ last.method = "HEAD" /\ last.status = 404

\* The store after one key PUT per item, in list order.
RECURSIVE individual_puts(_, _, _)
individual_puts(d, cf, items) ==
    IF items = <<>> THEN d
    ELSE individual_puts(key_create(d, cf, items[1].key, items[1].value, FALSE).db,
                         cf, Tail(items))

\* C10: a successful PUT _batch leaves the store as the individual key PUTs
\* of its items, issued in list order, would.
C10_BatchAsPuts ==
    [][\A t \in Tasks :
          (/\ task[t].pc = "idle" /\ task'[t].pc = "has"
           /\ last'.route = "_batch" /\ last'.status = 201)
          => db' = individual_puts(db, task'[t].cf, task'[t].evs)]_vars

\* C10 witness: a batch that names one key twice, with different values,
\* was stored and the key holds the later value.
C10_Witness ==
    \E t \in Tasks :
        /\ task[t].pc = "has" /\ task[t].n = 0
        /\ last.route = "_batch" /\ last.status = 201
        /\ Len(task[t].evs) = 2
        /\ task[t].evs[1].key = task[t].evs[2].key
        /\ task[t].evs[1].value # task[t].evs[2].value
        /\ db[task[t].cf][task[t].evs[2].key] = task[t].evs[2].value

----------------------------------------------------------------------------
(* The auth gate under creations, drops and requests with every header.    *)

\* X-SECRET-KEY of a non-creation request: absent or a client's secret.
AuthSecrets == SecretKeys \cup {None}

\* X-ADMIN-TOKEN: absent, wrong or the admin token.
AuthTokens == {"none", "wrong", AdminToken}

NextAuth ==
    \/ \E U \in Names, s \in SecretKeys, g \in GenSecrets :
          CreateCollection("t1", U, s, "none", g)
    \/ \E U \in Names, s \in AuthSecrets :
          DropCollection("t1", U, s, "none")
    \/ \E U \in Names, s \in AuthSecrets :
          KeyPut("t1", U, <<"1">>, s, "none", Obj([t |-> Num(1)]), FALSE)
    \/ \E U \in Names, s \in AuthSecrets, a \in AuthTokens :
          KeyGet("t1", U, <<"1">>, s, a)
    \/ \E U \in Names, s \in {<<"s1">>, None} :
          SubscribeGet("c1", U, s, "none")
    \/ SubscribeOpen("c1")
    \/ Disconnect("c1")
    \/ PublishHas("t1")
    \/ PublishGet("t1")
    \/ PublishSend("t1")

SpecAuth == Init /\ [][NextAuth]_vars

----------------------------------------------------------------------------
(* Properties of the auth gate (SpecAuth)                                  *)

\* TRUE when the last request answered is a non-creation request on
\* /api/{U}/... without a valid admin token.
LastNeedsSecret ==
    /\ last.method # "none"
    /\ ~(last.method = "PUT" /\ last.route = "collection")
    /\ ~last.admin

\* C2 (as amended): a non-creation request without a valid admin token is
\* admitted by the gate when it carries the secret that the latest creation
\* bound to the internal name ns(secret)-U returned, and is otherwise
\* answered 401 with storage and pub/sub untouched; a secret stays admitted
\* until a later creation rebinds that internal name, and another tenant's
\* secret for its own collection of the same name U is admitted.
C2_GateBySecretRow ==
    LastNeedsSecret =>
        IF last.secret # None /\ Created(last.secret, last.U)
        THEN last.status # 401
        ELSE last.status = 401 /\ last.quiet

\* C2 witness: after s1 created docs, a PUT carrying s3, whose namespace
\* prefix equals that of s1, was answered 401 and changed nothing.
C2_Witness ==
    /\ Created(<<"s1">>, <<"docs">>)
    /\ cf_exists(db, <<"na", "docs">>)
    /\ last.method = "PUT" /\ last.route = "key" /\ last.secret = <<"s3">>
    /\ ~last.admin /\ last.status = 401 /\ last.quiet

\* C2 as stated: once a creation of U returned secret S, a request on U is
\* admitted when it carries S and answered 401 when it carries any other
\* secret value (or none) and no valid admin token.
C2_OnlyTheReturnedSecret ==
    LastNeedsSecret =>
        \A S \in SecretKeys :
            Created(S, last.U) =>
                IF last.secret = S THEN last.status # 401
                ELSE last.status = 401 /\ last.quiet

----------------------------------------------------------------------------
(* Mutations and subscriptions of one collection, handled in parallel.     *)

\* The _batch body of the writer: two items on one key.
PubBatch ==
    Arr(<<BatchItem(<<"1">>, Obj([t |-> Num(1)])), BatchItem(<<"1">>, Obj([t |-> Num(2)]))>>)

\* Writers: t1 issues every kind of mutation, also ones whose write fails
\* (an Io error; a collection that does not exist, reached with the admin
\* token); t2 issues key PUTs in parallel; one client subscribes and goes.
NextPub ==
    \/ CreateCollection("t1", <<"docs">>, <<"s1">>, "none", <<"g1">>)
    \/ \E t \in Tasks :
          KeyPut(t, <<"docs">>, <<"1">>, <<"s1">>, "none", Obj([t |-> Num(1)]), FALSE)
    \/ \E a \in {"none", AdminToken} :
          KeyPut("t1", <<"docs">>, <<"1">>, <<"s1">>, a, Obj([t |-> Num(1)]), a = "none")
    \/ \E io \in BOOLEAN : KeyDelete("t1", <<"docs">>, <<"1">>, <<"s1">>, "none", io, FALSE)
    \/ \E io \in BOOLEAN : Batch("t1", <<"docs">>, <<"s1">>, "none", PubBatch, io)
    \/ \E t \in Tasks : PublishHas(t)
    \/ \E t \in Tasks : PublishGet(t)
    \/ \E t \in Tasks : PublishSend(t)
    \/ SubscribeGet("c1", <<"docs">>, <<"s1">>, "none")
    \/ SubscribeOpen("c1")
    \/ Disconnect("c1")

SpecPub == Init /\ [][NextPub]_vars

\* Subscribers: t1 and t2 issue mutations in parallel; c1 reads its stream;
\* c2 is a client that subscribes and never reads.
NextPS ==
    \/ CreateCollection("t1", <<"docs">>, <<"s1">>, "none", <<"g1">>)
    \/ \E t \in Tasks :
          KeyPut(t, <<"docs">>, <<"1">>, <<"s1">>, "none", Obj([t |-> Num(1)]), FALSE)
    \/ KeyDelete("t1", <<"docs">>, <<"1">>, <<"s1">>, "none", FALSE, FALSE)
    \/ Batch("t1", <<"docs">>, <<"s1">>, "none", PubBatch, FALSE)
    \/ \E t \in Tasks : PublishHas(t)
    \/ \E t \in Tasks : PublishGet(t)
    \/ \E t \in Tasks : PublishSend(t)
    \/ \E c \in Subs : SubscribeGet(c, <<"docs">>, <<"s1">>, "none")
    \/ \E c \in Subs : SubscribeOpen(c)
    \/ Recv("c1")
    \/ RecvLagged("c1")
    \/ RecvClosed("c1")
    \/ \E c \in Subs : Disconnect(c)

SpecPS == Init /\ [][NextPS]_vars

----------------------------------------------------------------------------
(* Backups, uploads and restores of one collection, with drops and         *)
(* re-creations of the collection and with storage errors.                 *)

\* Which storage call of a handler or task reports an Io error (0: none).
Fails == 0..2

\* The backup_id parameter of a restore request.
BackupIds == {None} \cup {nanoid(i) : i \in 1..MaxIds}

NextBR ==
    \/ CreateCollection("t1", <<"docs">>, <<"s1">>, "none", <<"g1">>)
    \/ DropCollection("t1", <<"docs">>, <<"s1">>, "none")
    \/ \E fail \in Fails : StartBackup(<<"docs">>, <<"s1">>, "none", fail)
    \/ \E id \in DOMAIN job, io \in BOOLEAN : BackupBlock(id, io)
    \/ \E id \in DOMAIN job, fail \in Fails : BackupUpdate(id, fail)
    \/ \E fail \in Fails : UploadBegin(<<"docs">>, <<"s1">>, "none", fail)
    \/ \E id \in DOMAIN job, body \in {"file", "none", "error"} : UploadEnd(id, body)
    \/ \E s \in {<<"s1">>, <<"s3">>}, b \in BackupIds, fail \in Fails :
          StartRestore(<<"docs">>, s, "none", b, fail)
    \/ \E id \in DOMAIN job, io \in BOOLEAN, mode \in {"replace", "ingest"} :
          RestoreBlock(id, io, mode)
    \/ \E id \in DOMAIN job, fail \in Fails : RestoreUpdate(id, fail)

SpecBR == Init /\ [][NextBR]_vars

----------------------------------------------------------------------------
(* The same operations when storage never reports an error and the worker  *)
(* pool keeps running: the only failures are a backup of a dropped         *)
(* collection, a rejected restore and an upload whose body cannot be read. *)

\* The next step of the task or handler that job id stands for.
JobStep(id) ==
    \/ BackupBlock(id, FALSE)
    \/ BackupUpdate(id, 0)
    \/ \E body \in {"file", "none", "error"} : UploadEnd(id, body)
    \/ \E mode \in {"replace", "ingest"} : RestoreBlock(id, FALSE, mode)
    \/ RestoreUpdate(id, 0)

NextLive ==
    \/ CreateCollection("t1", <<"docs">>, <<"s1">>, "none", <<"g1">>)
    \/ DropCollection("t1", <<"docs">>, <<"s1">>, "none")
    \/ StartBackup(<<"docs">>, <<"s1">>, "none", 0)
    \/ UploadBegin(<<"docs">>, <<"s1">>, "none", 0)
    \/ \E b \in BackupIds : StartRestore(<<"docs">>, <<"s1">>, "none", b, 0)
    \/ \E id \in DOMAIN job : JobStep(id)

\* A spawned task, and a handler that reads its body, take their next step.
SpecLive ==
    Init /\ [][NextLive]_vars /\ \A i \in 1..MaxIds : WF_vars(JobStep(nanoid(i)))

----------------------------------------------------------------------------
(* The round trip: a tenant fills a collection, backs it up and drops it;  *)
(* the collection is created again, by the same or by another secret, and  *)
(* a backup is restored into it.                                           *)

NextRT ==
    \/ \E s \in Tenants : CreateCollection("t1", <<"docs">>, s, "none", <<"g1">>)
    \/ DropCollection("t1", <<"docs">>, <<"s1">>, "none")
    \/ \E n \in 1..2 :
          KeyPut("t1", <<"docs">>, <<"1">>, <<"s1">>, "none", Obj([t |-> Num(n)]), FALSE)
    \/ PublishHas("t1")
    \/ StartBackup(<<"docs">>, <<"s1">>, "none", 0)
    \/ \E id \in DOMAIN job, io \in BOOLEAN : BackupBlock(id, io)
    \/ \E id \in DOMAIN job : BackupUpdate(id, 0)
    \/ \E s \in Tenants, b \in BackupIds : StartRestore(<<"docs">>, s, "none", b, 0)
    \/ \E id \in DOMAIN job, mode \in {"replace", "ingest"} : RestoreBlock(id, FALSE, mode)
    \/ \E id \in DOMAIN job : RestoreUpdate(id, 0)

SpecRT == Init /\ [][NextRT]_vars

----------------------------------------------------------------------------
(* Properties of pub/sub (SpecPS, SpecPub)                                 *)

\* What subscriber c has received and what its receiver still holds for it.
Stream(c) ==
    sub[c].frames \o SubSeq(chans[sub[c].chan], sub[c].pos + 1, Len(chans[sub[c].chan]))

\* TRUE while a publish call for event id is between has_subscribers and send.
InFlight(id) ==
    \E t \in Tasks : task[t].pc \in {"get", "send"} /\ CurrentEvent(t).id = id

\* TRUE when c skipped events or is more than the capacity behind.
Behind(c) ==
    sub[c].lagged \/ Len(chans[sub[c].chan]) - sub[c].pos > ChannelCap

\* C3: a subscriber whose stream is open and that is not behind receives,
\* for every mutation whose publish call ran while its stream was open,
\* exactly one frame with the mutated key.
C3_ExactlyOneFrame ==
    \A c \in Subs :
        (sub[c].pc = "open" /\ ~Behind(c)) =>
            \A o \in owed.by[c] :
                ~InFlight(o.id) =>
                    Cardinality({i \in 1..Len(Stream(c)) :
                                    Stream(c)[i].id = o.id /\ Stream(c)[i].key = o.key}) = 1

\* TRUE when the store d holds the effect of event e on cf.
Stored(d, cf, e) ==
    IF e.operation = "Create"
    THEN get_cf(d, cf, e.key).err = "ok" /\ get_cf(d, cf, e.key).val = e.value
    ELSE get_cf(d, cf, e.key).err # "ok"

\* C4: a handler hands events to publish only when it answers 200/201, one
\* event per storage write that succeeded and with the store already
\* showing the write (the last one on each key); it then calls publish once
\* per event, in order, and returns after the last call.  A request whose
\* write fails starts no publish call.
C4_PublishAfterWrite ==
    [][\A t \in Tasks :
          /\ (task[t].pc = "idle" /\ task'[t].pc # "idle") =>
                /\ last'.status \in {200, 201}
                /\ last'.route \in {"key", "_batch"}
                /\ task'[t].n = 0
                /\ task'[t].nw = Len(task'[t].evs)
                /\ \A i \in 1..Len(task'[t].evs) :
                      (\A j \in (i + 1)..Len(task'[t].evs) :
                           task'[t].evs[j].key # task'[t].evs[i].key)
                      => Stored(db', task'[t].cf, task'[t].evs[i])
          /\ (task[t].pc # "idle" /\ task'[t].pc # "idle" /\ task'[t] # task[t]) =>
                /\ task'[t].nw = task[t].nw
                /\ Len(task'[t].evs) = Len(task[t].evs)
                /\ task'[t].n = IF task[t].pc = "has" THEN task[t].n + 1 ELSE task[t].n
                /\ task'[t].n <= task[t].nw
          /\ (task[t].pc # "idle" /\ task'[t].pc = "idle") =>
                (IF task[t].pc = "has" THEN task[t].n + 1 ELSE task[t].n) = task[t].nw
      ]_vars

\* C4 witness: the batch handler stored two items on key 1 and is in its
\* second publish call, a subscriber being connected.
C4_Witness ==
    /\ task["t1"].pc = "send" /\ task["t1"].n = 2 /\ task["t1"].nw = 2
    /\ get_cf(db, task["t1"].cf, <<"1">>).err = "ok"
    /\ get_cf(db, task["t1"].cf, <<"1">>).val = Obj([t |-> Num(2)])
    /\ sub["c1"].pc = "open"

----------------------------------------------------------------------------
(* Properties of the backup/restore records (SpecBR, SpecLive)             *)

\* The ways a record's status may have been written so far.
StatusPaths ==
    {<<"in_progress">>, <<"in_progress", "completed">>, <<"in_progress", "failed">>}

\* The history's name of a global record CF.
StoreOf(cf) == IF cf = BACKUPS_CF THEN "backups" ELSE "restores"

\* C5: the statuses written for every backup record (in backups and in the
\* collection's own -backups CF) and every restore record are in_progress
\* first and then at most one of completed and failed, after which the
\* record is not written again; the records stored in backups and restores
\* show the status written last.
C5_RecordStateMachine ==
    /\ \A k \in DOMAIN hist.trail : hist.trail[k] \in StatusPaths
    /\ \A cf \in {BACKUPS_CF, RESTORES_CF} :
          \A id \in DOMAIN db[cf] :
              /\ <<StoreOf(cf), id>> \in DOMAIN hist.trail
              /\ db[cf][id].fields.status.s[1] =
                     hist.trail[<<StoreOf(cf), id>>][Len(hist.trail[<<StoreOf(cf), id>>])]

\* C5 witness: a backup went from in_progress to completed in both CFs and
\* a restore from in_progress to failed.
C5_Witness ==
    /\ <<"backups", nanoid(1)>> \in DOMAIN hist.trail
    /\ hist.trail[<<"backups", nanoid(1)>>] = <<"in_progress", "completed">>
    /\ <<"own", nanoid(1)>> \in DOMAIN hist.trail
    /\ hist.trail[<<"own", nanoid(1)>>] = <<"in_progress", "completed">>
    /\ <<"restores", nanoid(2)>> \in DOMAIN hist.trail
    /\ hist.trail[<<"restores", nanoid(2)>>] = <<"in_progress", "failed">>

\* TRUE when the record id of cf is stored with status in_progress.
Pending(cf, id) ==
    /\ id \in DOMAIN db[cf]
    /\ db[cf][id].fields.status = InProgress

\* C6: every backup or restore record stored as in_progress is eventually
\* stored as completed or failed.
C6_EventuallyFinal ==
    \A i \in 1..MaxIds :
        \A cf \in {BACKUPS_CF, RESTORES_CF} :
            Pending(cf, nanoid(i)) ~> ~Pending(cf, nanoid(i))

----------------------------------------------------------------------------
(* Properties of the round trip (SpecRT)                                   *)

\* TRUE when every backup taken by create_backup whose record says
\* completed has its file at "." + url, holding the contents the CF had
\* when create_backup ran.
BackupFilesKept(d, fs, h) ==
    \A id \in DOMAIN h.snap :
        (get_cf(d, BACKUPS_CF, id).err = "ok"
         /\ get_cf(d, BACKUPS_CF, id).val.fields.status = Completed) =>
            /\ get_cf(d, BACKUPS_CF, id).val.fields.url.kind = "string"
            /\ full_path(get_cf(d, BACKUPS_CF, id).val.fields.url.s) \in DOMAIN fs
            /\ fs[full_path(get_cf(d, BACKUPS_CF, id).val.fields.url.s)] = h.snap[id].contents

\* C7: a completed backup of U keeps its file, and the restore of backup B
\* of U into a collection U that holds nothing (dropped and created again)
\* leaves it with exactly the contents U had when B was taken.
C7_RoundTrip ==
    [][/\ BackupFilesKept(db', files', hist')
       /\ \A id \in DOMAIN job :
             (/\ job[id].kind = "restore" /\ job[id].pc = "block"
              /\ id \in DOMAIN job' /\ job'[id].pc = "update" /\ job'[id].result
              /\ job[id].backup \in DOMAIN hist.snap
              /\ hist.snap[job[id].backup].U = job[id].U
              /\ db[job[id].cf] = << >>)
             => db'[job[id].cf] = hist.snap[job[id].backup].contents
      ]_vars

\* C7 witness: docs of s1 was backed up and dropped, s2 created docs anew,
\* and the restore task has put the backed-up document into it.
C7_Witness ==
    /\ ~cf_exists(db, <<"na", "docs">>)
    /\ \E id \in DOMAIN job :
          /\ job[id].kind = "restore" /\ job[id].pc = "update" /\ job[id].result
          /\ job[id].cf = <<"nb", "docs">>
          /\ job[id].backup \in DOMAIN hist.snap
          /\ hist.snap[job[id].backup].contents # << >>
          /\ db[job[id].cf] = hist.snap[job[id].backup].contents

----------------------------------------------------------------------------
(* Name resolution: user names that look like internal names, and secrets  *)
(* whose digests share their first 8 characters.                           *)

\* User names: "docs", and "na-docs", which is also the internal name of
\* the collection docs of the tenant holding s1.
NSNames == {<<"docs">>, <<"na", "docs">>}

NextNS ==
    \/ \E U \in NSNames, s \in SecretKeys, g \in GenSecrets :
          CreateCollection("t1", U, s, "none", g)
    \/ \E U \in NSNames : DropCollection("t1", U, <<"s1">>, "none")
    \/ \E U \in NSNames, s \in Tenants :
          KeyPut("t1", U, <<"1">>, s, "none", Obj([t |-> Num(1)]), FALSE)
    \/ \E U \in NSNames, s \in Tenants :
          KeyGet("t1", U, <<"1">>, s, "none")
    \/ PublishHas("t1")

SpecNS == Init /\ [][NextNS]_vars

\* The internal name PUT /api/{U} with secret S is created under.
CreatedName(S, U) ==
    internal_collection(Request("PUT", "collection", U, None, S, "none"), db, None)

\* The internal name a key request on U carrying S resolves to.
ResolvedName(method, S, U) ==
    internal_collection(Request(method, "key", U, <<"1">>, S, "none"), db, None)

\* C11: while the collection U that secret S created exists, every
\* non-creation request on U carrying S resolves to the internal name the
\* creation used, whatever else the store holds.
C11_ResolvedBySecretAndName ==
    \A S \in SecretKeys, U \in NSNames :
        (cf_exists(db, CreatedName(S, U)) /\ Created(S, U))
        => \A m \in {"GET", "PUT", "HEAD", "DELETE"} :
               ResolvedName(m, S, U) = CreatedName(S, U)

----------------------------------------------------------------------------
(* Collection lifecycle: creation and drop of collections and of their     *)
(* -backups siblings, by tenants.                                          *)

\* User names: "docs", and names ending in one and in two "-backups".
CollNames == {<<"docs">>, <<"docs", "backups">>, <<"docs", "backups", "backups">>}

\* X-SECRET-KEY of a creation: s1, s3 (same namespace as s1) or absent.
CollSecrets == {<<"s1">>, <<"s3">>, None}

NextColl ==
    \/ \E U \in CollNames, s \in CollSecrets, g \in GenSecrets :
          CreateCollection("t1", U, s, "none", g)
    \/ \E U \in CollNames, s \in {<<"s1">>, <<"s2">>} :
          DropCollection("t1", U, s, "none")
    \/ \E U \in CollNames :
          KeyPut("t1", U, <<"1">>, <<"s1">>, "none", Obj([t |-> Num(1)]), FALSE)
    \/ PublishHas("t1")

SpecColl == Init /\ [][NextColl]_vars

\* TRUE of a step that answers a request with this method on this route.
Answers(method, route) ==
    last' # last /\ last'.method = method /\ last'.route = route

\* The secrets a creation may have been bound to: the header's, else a
\* generated one.
BoundSecrets(req) == IF req.secret # None THEN {req.secret} ELSE GenSecrets

\* C13: a PUT /api/{U} whose internal CF N-U does not exist is answered 201
\* with the plaintext secret (the header's, else a generated one) without
\* any authentication; afterwards N-U (empty) and N-U-backups exist and the
\* secrets CF holds the SHA-256 hash of the secret under both names.
C13_CreationBootstraps ==
    [][Answers("PUT", "collection") =>
          \E S \in BoundSecrets(last') :
             LET cf == hash_collection_namespace(S) \o last'.U
             IN  ~cf_exists(db, cf) =>
                    /\ last'.status = 201 /\ last'.out = S
                    /\ cf_exists(db', cf) /\ db'[cf] = << >>
                    /\ cf_exists(db', cf \o <<"backups">>)
                    /\ StoredSecret(db', cf) = hash_secret_key(S)
                    /\ StoredSecret(db', cf \o <<"backups">>) = hash_secret_key(S)
      ]_vars

\* C13 witness: a creation without secret and without admin token was
\* answered 201 with a generated secret, and both CFs exist.
C13_Witness ==
    /\ last.method = "PUT" /\ last.route = "collection" /\ last.status = 201
    /\ last.secret = None /\ ~last.admin /\ last.out \in GenSecrets
    /\ cf_exists(db, hash_collection_namespace(last.out) \o last.U)
    /\ cf_exists(db, hash_collection_namespace(last.out) \o last.U \o <<"backups">>)

\* C14: a PUT /api/{U} whose internal CF exists is answered 409 without a
\* secret, and nothing in the store changes (CF contents, the sibling
\* -backups CF, the secrets rows).
C14_ConflictChangesNothing ==
    [][Answers("PUT", "collection") =>
          \A S \in BoundSecrets(last') :
             cf_exists(db, hash_collection_namespace(S) \o last'.U)
             => last'.status = 409 /\ last'.out = None /\ db' = db
      ]_vars

\* C14 witness: docs of s1 holds a document, and a creation of docs with
\* s3, which derives the same internal name, was answered 409.
C14_Witness ==
    /\ last.method = "PUT" /\ last.route = "collection" /\ last.status = 409
    /\ last.secret = <<"s3">> /\ last.U = <<"docs">>
    /\ Created(<<"s1">>, <<"docs">>)
    /\ cf_exists(db, <<"na", "docs">>) /\ db[<<"na", "docs">>] # << >>
    /\ StoredSecret(db, <<"na", "docs">>) = hash_secret_key(<<"s1">>)

----------------------------------------------------------------------------
(* Requests carrying the admin token.  Without X-SECRET-KEY the resolver   *)
(* falls back to the user name as internal name (namespace.rs:211-214), so *)
(* the name "secrets" addresses the secrets CF itself.                     *)

\* User names: "docs" and the name of the secrets CF.
AdminNames == {<<"docs">>, SECRETS_CF}

NextAdmin ==
    \/ \E g \in GenSecrets : CreateCollection("t1", <<"docs">>, <<"s1">>, "none", g)
    \/ \E U \in AdminNames, s \in {<<"s1">>, None}, a \in {"none", AdminToken} :
          DropCollection("t1", U, s, a)
    \/ KeyPut("t1", <<"docs">>, <<"1">>, <<"s1">>, "none", Obj([t |-> Num(1)]), FALSE)
    \/ \E a \in {"none", AdminToken} :
          KeyDelete("t1", SECRETS_CF, <<"na", "docs">>, None, a, FALSE, FALSE)
    \/ \E U \in AdminNames, s \in {<<"s1">>, None}, a \in {"none", AdminToken} :
          UploadBegin(U, s, a, 0)
    \/ \E id \in DOMAIN job, body \in {"file", "none"} : UploadEnd(id, body)
    \/ PublishHas("t1")

SpecAdmin == Init /\ [][NextAdmin]_vars

\* The CFs main creates at startup.
StartupCFs == {SECRETS_CF, BACKUPS_CF, RESTORES_CF}

\* C15: every CF created by a request (a collection creation or the
\* on-demand creation of a -backups CF) has a Secret row in the secrets CF
\* under its internal name.
C15_EveryCFHasRow ==
    \A cf \in DOMAIN db \ StartupCFs :
        /\ get_cf(db, SECRETS_CF, cf).err = "ok"
        /\ IsSecret(get_cf(db, SECRETS_CF, cf).val)

\* C16: the secrets CF exists.
C16_SecretsExists == cf_exists(db, SECRETS_CF)

----------------------------------------------------------------------------
(* Properties of drop (SpecColl)                                           *)

\* name ends in "-backups".
EndsInBackups(name) == Len(name) >= 2 /\ name[Len(name)] = "backups"

\* name without its last segment.
WithoutSuffix(name) == SubSeq(name, 1, Len(name) - 1)

\* The internal name the request answered by this step was resolved to.
Resolved ==
    internal_collection(Request(last'.method, last'.route, last'.U, last'.key,
                                last'.secret, "none"), db, None)

\* C17: an admitted DELETE /api/{U} with U ending in -backups, while the
\* base CF (the internal name without the suffix) exists, is answered 200
\* with the refusal and drops nothing; no CF ending in -backups is dropped
\* by a step while its base CF exists.
C17_BackupsOutliveBase ==
    [][/\ (/\ Answers("DELETE", "collection") /\ last'.status # 401
           /\ EndsInBackups(last'.U)
           /\ cf_exists(db, Resolved) /\ cf_exists(db, WithoutSuffix(Resolved)))
          => (last'.status = 200 /\ last'.out = <<"refused">> /\ db' = db)
       /\ \A cf \in DOMAIN db \ DOMAIN db' :
             EndsInBackups(cf) => ~cf_exists(db, WithoutSuffix(cf))
      ]_vars

\* C18: an admitted DELETE /api/{U} on an existing collection U (a name
\* not ending in -backups) is answered 200 and removes CF N-U alone: every
\* other CF, the sibling N-U-backups and the secrets rows included, is
\* unchanged; on a collection that does not exist it is answered 404 and
\* changes nothing.
C18_DropOnlyTheCollection ==
    [][(/\ Answers("DELETE", "collection") /\ last'.status # 401
        /\ ~EndsInBackups(last'.U))
       => IF cf_exists(db, Resolved)
          THEN /\ last'.status = 200
               /\ DOMAIN db' = DOMAIN db \ {Resolved}
               /\ \A cf \in DOMAIN db' : db'[cf] = db[cf]
          ELSE last'.status = 404 /\ db' = db
      ]_vars

\* C18 witness: DELETE /api/docs was answered 200, docs is gone and its
\* sibling -backups CF, holding a record, and the secrets rows are there.
C18_Witness ==
    /\ last.method = "DELETE" /\ last.route = "collection" /\ last.status = 200
    /\ last.U = <<"docs">> /\ last.secret = <<"s1">>
    /\ ~cf_exists(db, <<"na", "docs">>)
    /\ cf_exists(db, <<"na", "docs", "backups">>)
    /\ db[<<"na", "docs", "backups">>] # << >>
    /\ StoredSecret(db, <<"na", "docs">>) = hash_secret_key(<<"s1">>)

----------------------------------------------------------------------------
(* Range listing (collection.rs: list, query, execute_range_query) over    *)
(* the facade's ordered range scan.                                        *)

\* The byte order of the characters keys are made of; "fff0" stands for
\* the character U+FFF0.
CharRank(c) ==
    CASE c = "0" -> 0 [] c = "1" -> 1 [] c = "2" -> 2 [] c = "3" -> 3
      [] c = "fff0" -> 9 [] OTHER -> 5

\* a < b in the byte-wise lexicographic order of strings.
RECURSIVE StrLess(_, _)
StrLess(a, b) ==
    IF b = <<>> THEN FALSE
    ELSE IF a = <<>> THEN TRUE
    ELSE IF a[1] = b[1] THEN StrLess(Tail(a), Tail(b))
    ELSE CharRank(a[1]) < CharRank(b[1])

\* The keys of a set in ascending order.
RECURSIVE Ascending(_)
Ascending(keys) ==
    IF keys = {} THEN <<>>
    ELSE LET m == CHOOSE k \in keys : \A j \in keys : ~StrLess(j, k)
         IN  <<m>> \o Ascending(keys \ {m})

\* The first n items of a list.
Take(items, n) == SubSeq(items, 1, IF n < Len(items) THEN n ELSE Len(items))

\* The cursor of a range scan: the keys k of the CF with from <= k < to,
\* forward or reverse, at most limit of them.
range_keys(d, cf, from, to, limit, direction) ==
    LET asc == Ascending({k \in DOMAIN d[cf] : ~StrLess(k, from) /\ StrLess(k, to)})
    IN  Take(IF direction = "Forward" THEN asc ELSE Reversed(asc), limit)

\* get_range_cf_with_keys::<Value>: a list of {key, value} objects.
get_range_cf_with_keys(d, cf, from, to, limit, direction) ==
    IF ~cf_exists(d, cf) THEN [err |-> "InvalidColumnFamily", val |-> <<>>]
    ELSE LET ks == range_keys(d, cf, from, to, limit, direction)
         IN  [err |-> "ok",
              val |-> [i \in 1..Len(ks) |->
                          Obj([key |-> Str(ks[i]), value |-> d[cf][ks[i]]])]]

\* get_range_cf::<Value>: the values only.
get_range_cf(d, cf, from, to, limit, direction) ==
    IF ~cf_exists(d, cf) THEN [err |-> "InvalidColumnFamily", val |-> <<>>]
    ELSE LET ks == range_keys(d, cf, from, to, limit, direction)
         IN  [err |-> "ok", val |-> [i \in 1..Len(ks) |-> d[cf][ks[i]]]]

\* Option<T>: <<>> is None, <<x>> is Some(x).
unwrap_or(opt, default) == IF opt = <<>> THEN default ELSE opt[1]

\* RangeQuery of a query string or a JSON body without a query field.
RangeQuery(from, to, limit, order, keys) ==
    [from |-> from, to |-> to, limit |-> limit, order |-> order, keys |-> keys]

\* The default of a missing to: "\u{fff0}".
HighSentinel == <<"fff0">>

\* usize::MAX, scaled to the largest integer TLC holds.
usize_MAX == 2147483647

\* impl From<SortOrder> for Direction.
Direction(order) == IF order = "asc" THEN "Forward" ELSE "Reverse"

\* A variant of list whose missing to defaults to the empty string.
collection_list_empty_to(d, cf, query) ==
    IF ~cf_exists(d, cf) THEN Result(404, None, d, <<>>, <<>>)
    ELSE LET from == unwrap_or(query.from, <<>>)
             to == unwrap_or(query.to, <<>>)
             limit == unwrap_or(query.limit, usize_MAX)
             direction == Direction(unwrap_or(query.order, "asc"))
             r == IF query.keys
                  THEN get_range_cf_with_keys(d, cf, from, to, limit, direction)
                  ELSE get_range_cf(d, cf, from, to, limit, direction)
         IN  IF r.err # "ok" THEN Result(500, None, d, <<>>, <<>>)
             ELSE Result(200, Arr(r.val), d, <<>>, <<>>)

\* collection::list (GET /api/{U}).
collection_list(d, cf, query) ==
    IF ~cf_exists(d, cf) THEN Result(404, None, d, <<>>, <<>>)
    ELSE LET from == unwrap_or(query.from, <<>>)
             to == unwrap_or(query.to, HighSentinel)
             limit == unwrap_or(query.limit, usize_MAX)
             direction == Direction(unwrap_or(query.order, "asc"))
             r == IF query.keys
                  THEN get_range_cf_with_keys(d, cf, from, to, limit, direction)
                  ELSE get_range_cf(d, cf, from, to, limit, direction)
         IN  IF r.err # "ok" THEN Result(500, None, d, <<>>, <<>>)
             ELSE Result(200, Arr(r.val), d, <<>>, <<>>)

\* collection::execute_range_query.
execute_range_query(d, cf, range_query) ==
    LET from == unwrap_or(range_query.from, <<>>)
        to == unwrap_or(range_query.to, HighSentinel)
        limit == unwrap_or(range_query.limit, usize_MAX)
        direction == IF range_query.order = <<>> THEN "Forward"
                     ELSE Direction(range_query.order[1])
    IN  IF range_query.keys
        THEN get_range_cf_with_keys(d, cf, from, to, limit, direction)
        ELSE get_range_cf(d, cf, from, to, limit, direction)

\* collection::query (POST /api/{U}) for a body without a query field (a
\* body with one is a JSONPath query and takes execute_query).
collection_query(d, cf, query) ==
    IF ~cf_exists(d, cf) THEN Result(404, None, d, <<>>, <<>>)
    ELSE LET r == execute_range_query(d, cf, query)
         IN  IF r.err # "ok" THEN Result(500, None, d, <<>>, <<>>)
             ELSE Result(200, Arr(r.val), d, <<>>, <<>>)

\* GET /api/{U}?from=&to=&limit=&order=&keys= and POST /api/{U}
ListRange(t, method, U, secret, admin, query) ==
    LET req == Request(method, "collection", U, None, secret, admin)
    IN  \E cf \in {internal_collection(req, db, None)} :
        \E res \in {IF ~require_auth(req, db) THEN Unauthorized(db)
                  ELSE IF method = "GET" THEN collection_list(db, cf, query)
                  ELSE collection_query(db, cf, query)} :
            /\ Begin(t, req, cf, res)
            /\ UNCHANGED <<files, publishers, chans, sub, job, owner, owed, ids, hist>>

\* Keys "1", "1-0" and "2": in byte order "1" < "1-0" < "2".
ListKeys == {<<"1">>, <<"1", "0">>, <<"2">>}

\* The largest limit a request carries.
MaxLimit == 2

\* Range queries: every field absent or present.
RangeQueries ==
    {RangeQuery(from, to, limit, order, keys) :
        from \in {<<>>, << <<"1", "0">> >>, << <<"2">> >>},
        to \in {<<>>, << <<"2">> >>, << <<>> >>},
        limit \in {<<>>} \cup {<<n>> : n \in 0..MaxLimit},
        order \in {<<>>, <<"asc">>, <<"desc">>},
        keys \in BOOLEAN}

NextList ==
    \/ \E g \in GenSecrets : CreateCollection("t1", <<"docs">>, <<"s1">>, "none", g)
    \/ \E k \in ListKeys :
          KeyPut("t1", <<"docs">>, k, <<"s1">>, "none", Obj([t |-> Num(Len(k))]), FALSE)
    \/ \E k \in ListKeys :
          KeyDelete("t1", <<"docs">>, k, <<"s1">>, "none", FALSE, FALSE)
    \/ \E m \in {"GET", "POST"}, q \in RangeQueries :
          ListRange("t1", m, <<"docs">>, <<"s1">>, "none", q)
    \/ PublishHas("t1")

SpecList == Init /\ [][NextList]_vars

\* The keys of a list of {key, value} objects.
EntryKeys(entries) == [i \in 1..Len(entries) |-> entries[i].fields.key.s]

\* What the handler of method answers to q on CF cf.
Listing(method, cf, q) ==
    IF method = "GET" THEN collection_list(db, cf, q) ELSE collection_query(db, cf, q)

\* C19: a range listing of an existing collection answers min(L, number of
\* keys k with from <= k < to) entries, each a key of that range with its
\* stored value, strictly ascending or descending by key according to
\* order (so no key is repeated); missing from, to, limit, order stand for
\* "", the high sentinel, unbounded and ascending.  Without keys the
\* listing is the values of the same entries.
C19_RangeListing ==
    \A cf \in DOMAIN db \ StartupCFs, q \in RangeQueries, m \in {"GET", "POST"} :
        LET from == IF q.from = <<>> THEN <<>> ELSE q.from[1]
            to == IF q.to = <<>> THEN HighSentinel ELSE q.to[1]
            inrange == {k \in DOMAIN db[cf] : ~StrLess(k, from) /\ StrLess(k, to)}
            count == Cardinality(inrange)
            expected == IF q.limit = <<>> \/ q.limit[1] > count THEN count ELSE q.limit[1]
            descending == q.order = <<"desc">>
            entries == Listing(m, cf, [q EXCEPT !.keys = TRUE]).out.items
            ks == EntryKeys(entries)
        IN  /\ Listing(m, cf, q).status = 200
            /\ Len(entries) = expected
            /\ \A i \in 1..Len(ks) :
                  ks[i] \in inrange /\ entries[i].fields.value = db[cf][ks[i]]
            /\ \A i \in 1..(Len(ks) - 1) :
                  IF descending THEN StrLess(ks[i + 1], ks[i]) ELSE StrLess(ks[i], ks[i + 1])
            /\ ~q.keys =>
                  Listing(m, cf, q).out.items
                     = [i \in 1..Len(entries) |-> entries[i].fields.value]

\* C19 witness: docs holds three keys, and a listing was answered with two
\* entries in descending key order, "2" before "1-0".
C19_Witness ==
    /\ cf_exists(db, <<"na", "docs">>) /\ DOMAIN db[<<"na", "docs">>] = ListKeys
    /\ last.method \in {"GET", "POST"} /\ last.route = "collection"
    /\ last.status = 200 /\ last.out.kind = "array"
    /\ Len(last.out.items) = 2
    /\ last.out.items[1].kind = "object"
    /\ "key" \in DOMAIN last.out.items[1].fields
    /\ EntryKeys(last.out.items) = << <<"2">>, <<"1", "0">> >>

----------------------------------------------------------------------------
(* Properties of publish without subscribers (SpecPub)                     *)

\* No SSE stream is open on the collection.
NoSubscribers(cf) == \A c \in Subs : ~(sub[c].pc = "open" /\ sub[c].cf = cf)

\* Every event a channel was sent passed has_subscribers (publish numbers
\* only those; an event it drops keeps the number 0).
OnlyPublished == \A ch \in DOMAIN chans : \A i \in DOMAIN chans[ch] : chans[ch][i].id > 0

\* C20: a publish call on a collection without connected subscribers
\* returns at once: the registry and the channels are unchanged (no entry
\* is created), the event is not sent, and no subscriber connecting later
\* finds it in its channel.
C20_DropWithoutSubscribers ==
    [][/\ \A t \in Tasks :
             (/\ task[t].pc = "has" /\ task'[t] # task[t]
              /\ NoSubscribers(task[t].cf))
             => /\ publishers' = publishers /\ chans' = chans
                /\ task'[t].pc \in {"has", "idle"}
                /\ task'[t].pc = "has" => task'[t].n = task[t].n + 1
       /\ OnlyPublished'
      ]_vars

\* C20 witness: key 1 was written and its event published while nobody
\* subscribed (no event was ever numbered); the client that connected
\* afterwards has an open stream on an empty channel.
C20_Witness ==
    /\ \A t \in Tasks : task[t].pc = "idle"
    /\ cf_exists(db, <<"na", "docs">>) /\ <<"1">> \in DOMAIN db[<<"na", "docs">>]
    /\ owed.seq = 0
    /\ sub["c1"].pc = "open" /\ sub["c1"].cf = <<"na", "docs">>
    /\ chans[sub["c1"].chan] = <<>> /\ sub["c1"].frames = <<>>

----------------------------------------------------------------------------
(* A subscriber that falls behind: client c1 keeps its connection and      *)
(* reads at its own pace, client c2 comes and goes.                        *)

NextLag ==
    \/ CreateCollection("t1", <<"docs">>, <<"s1">>, "none", <<"g1">>)
    \/ \E k \in Keys :
          KeyPut("t1", <<"docs">>, k, <<"s1">>, "none", Obj([t |-> Num(1)]), FALSE)
    \/ PublishHas("t1")
    \/ PublishGet("t1")
    \/ PublishSend("t1")
    \/ \E c \in Subs : SubscribeGet(c, <<"docs">>, <<"s1">>, "none")
    \/ \E c \in Subs : SubscribeOpen(c)
    \/ Recv("c1")
    \/ RecvLagged("c1")
    \/ RecvClosed("c1")
    \/ Disconnect("c2")

SpecLag == Init /\ [][NextLag]_vars

\* The receiver of c is more than the channel capacity behind.
Lagging(c) == sub[c].pc = "open" /\ Len(chans[sub[c].chan]) - sub[c].pos > ChannelCap

\* C21: the stream of a subscriber (c1, which never disconnects) whose
\* receiver reports Lagged stays open on its channel: it loses the events
\* the channel no longer retains and nothing else, every frame it gets
\* afterwards is the next event of the channel in order, and its stream
\* ends only when the channel is closed and drained.
C21_LaggedKeepsStream ==
    [][/\ (Lagging("c1") /\ sub'["c1"] # sub["c1"])
          => /\ sub'["c1"].pc = "open" /\ sub'["c1"].chan = sub["c1"].chan
             /\ sub'["c1"].frames = sub["c1"].frames
             /\ sub'["c1"].pos = Len(chans[sub["c1"].chan]) - ChannelCap
       /\ (sub["c1"].pc = "open" /\ ~Lagging("c1") /\ sub'["c1"].pc = "open"
           /\ sub'["c1"] # sub["c1"])
          => /\ sub'["c1"].pos = sub["c1"].pos + 1
             /\ sub'["c1"].frames
                   = Append(sub["c1"].frames, chans[sub["c1"].chan][sub["c1"].pos + 1])
       /\ (sub["c1"].pc = "open" /\ sub'["c1"].pc # "open")
          => Closed(sub["c1"].chan) /\ sub["c1"].pos = Len(chans[sub["c1"].chan])
      ]_vars

\* C21 witness: c1 lagged, its stream is open, and the one frame it has
\* is the second event, received after the lag.
C21_Witness ==
    /\ sub["c1"].pc = "open" /\ sub["c1"].lagged
    /\ Len(sub["c1"].frames) = 1 /\ sub["c1"].frames[1].id = 2

----------------------------------------------------------------------------
(* Writers and slow subscribers: client c1 reads when it likes, client c2  *)
(* subscribes and never reads.  Each publish step of a request task is     *)
(* taken eventually (the runtime polls a ready task).                      *)

\* The requests in flight.
Busy == {t \in Tasks : task[t].pc # "idle"}

\* A writer starts only while the events of all requests in flight can
\* still be numbered.
MayWrite == owed.seq + Cardinality(Busy) < MaxEvents

NextW ==
    \/ CreateCollection("t1", <<"docs">>, <<"s1">>, "none", <<"g1">>)
    \/ \E t \in Tasks :
          /\ MayWrite
          /\ KeyPut(t, <<"docs">>, <<"1">>, <<"s1">>, "none", Obj([t |-> Num(1)]), FALSE)
    \/ \E t \in Tasks : PublishHas(t)
    \/ \E t \in Tasks : PublishGet(t)
    \/ \E t \in Tasks : PublishSend(t)
    \/ \E c \in Subs : SubscribeGet(c, <<"docs">>, <<"s1">>, "none")
    \/ \E c \in Subs : SubscribeOpen(c)
    \/ Recv("c1")
    \/ RecvLagged("c1")
    \/ Disconnect("c1")

SpecW == Init /\ [][NextW]_vars /\ \A t \in Tasks : WF_vars(Publish(t))

\* C22: every mutation request that reached its publish step completes
\* it and terminates, whatever the subscribers do: c2 never reads, c1 may
\* stop reading at any point.
C22_WritersNeverBlocked ==
    \A t \in Tasks : (task[t].pc # "idle") ~> (task[t].pc = "idle")

\* C22 witness: a request has terminated although the events sent to the
\* channel exceed its capacity and subscriber c2 has read none of them.
C22_Witness ==
    /\ \A t \in Tasks : task[t].pc = "idle"
    /\ sub["c2"].pc = "open" /\ sub["c2"].pos = 0
    /\ Len(chans[sub["c2"].chan]) > ChannelCap
    /\ last.method = "PUT" /\ last.route = "key" /\ last.status = 201

\* ---------------------------------------------------------------------
\* Restores of backups that cannot be restored.

\* Records an operator may store under a backup id with the admin token: a
\* completed one without url, and a completed one whose file does not exist.
OddBackupRecords ==
    {BackupRecord(nanoid(1), <<"docs">>, Completed, Null, Null),
     BackupRecord(nanoid(1), <<"docs">>, Completed,
                  Str(backup_url(<<"gone">>, nanoid(1))), Null)}

NextRej ==
    \/ CreateCollection("t1", <<"docs">>, <<"s1">>, "none", <<"g1">>)
    \/ KeyPut("t1", <<"docs">>, <<"1">>, <<"s1">>, "none", Obj([t |-> Num(1)]), FALSE)
    \/ \E body \in OddBackupRecords :
          KeyPut("t1", BACKUPS_CF, nanoid(1), None, AdminToken, body, FALSE)
    \/ PublishHas("t1")
    \/ StartBackup(<<"docs">>, <<"s1">>, "none", 0)
    \/ \E id \in DOMAIN job, io \in BOOLEAN : BackupBlock(id, io)
    \/ \E id \in DOMAIN job : BackupUpdate(id, 0)
    \/ \E b \in {None, nanoid(1)}, fail \in Fails :
          StartRestore(<<"docs">>, <<"s1">>, "none", b, fail)
    \/ \E id \in DOMAIN job, io \in BOOLEAN : RestoreBlock(id, io, "replace")
    \/ \E id \in DOMAIN job : RestoreUpdate(id, 0)

SpecRej == Init /\ [][NextRej]_vars

\* TRUE when backup_id names a stored backup record that is not completed,
\* has no url, or has a url whose file is not on disk.
NotRestorable(backup_id) ==
    /\ backup_id \in DOMAIN db[BACKUPS_CF]
    /\ IsBackupRecord(db[BACKUPS_CF][backup_id])
    /\ LET r == db[BACKUPS_CF][backup_id].fields
       IN  \/ r.status # Completed
           \/ r.url.kind # "string"
           \/ full_path(r.url.s) \notin DOMAIN files

\* C23: a POST /api/docs/_restore that is admitted, on an existing
\* collection, and names a backup record that is not completed, has no url
\* or has no file on disk, spawns no restore task and leaves the files and
\* every CF but restores unchanged (so the target CF too); when the storage
\* calls succeed it is answered 400 and the restore record it created is
\* stored with status failed and an error message, and when a storage call
\* reports an error it is answered 500.
C23_RestoreRejected ==
    [][\A fail \in Fails :
          LET req == Request("POST", "_restore", <<"docs">>, None, <<"s1">>, "none")
              cf == internal_collection(req, db, None)
              id == nanoid(ids + 1)
          IN  (/\ require_auth(req, db)
               /\ cf_exists(db, cf)
               /\ NotRestorable(nanoid(1))
               /\ StartRestore(<<"docs">>, <<"s1">>, "none", nanoid(1), fail))
              => /\ job' = job
                 /\ files' = files
                 /\ db'[cf] = db[cf]
                 /\ \A c \in DOMAIN db \ {RESTORES_CF} : c \in DOMAIN db' /\ db'[c] = db[c]
                 /\ last'.status = IF fail = 0 THEN 400 ELSE 500
                 /\ fail = 0 =>
                       /\ id \in DOMAIN db'[RESTORES_CF]
                       /\ db'[RESTORES_CF][id].fields.status = Failed
                       /\ db'[RESTORES_CF][id].fields.error.kind = "string"]_vars

\* C23 witness: the backup record id1 is completed with a url whose file is
\* not on disk, the restore id2 of it was answered 400 and its record is
\* failed with an error, no task exists for it and the collection still
\* holds its key.
C23_Witness ==
    /\ nanoid(1) \in DOMAIN db[BACKUPS_CF]
    /\ db[BACKUPS_CF][nanoid(1)].fields.status = Completed
    /\ db[BACKUPS_CF][nanoid(1)].fields.url.kind = "string"
    /\ full_path(db[BACKUPS_CF][nanoid(1)].fields.url.s) \notin DOMAIN files
    /\ last.method = "POST" /\ last.route = "_restore" /\ last.status = 400
    /\ nanoid(2) \in DOMAIN db[RESTORES_CF]
    /\ db[RESTORES_CF][nanoid(2)].fields.status = Failed
    /\ db[RESTORES_CF][nanoid(2)].fields.error.kind = "string"
    /\ nanoid(2) \notin DOMAIN job
    /\ <<"1">> \in DOMAIN db[<<"na", "docs">>]

\* ---------------------------------------------------------------------
\* Listings of backup and restore records.

\* A variant of list_backups that keeps the completed records only.
list_backups_completed(d, cf, U) ==
    IF ~cf_exists(d, cf) THEN Result(404, None, d, <<>>, <<>>)
    ELSE LET r == get_range_cf(d, BACKUPS_CF, <<>>, HighSentinel, usize_MAX, "Forward")
             Mine(backup) == /\ backup.fields.collection = Str(U)
                             /\ backup.fields.status = Completed
         IN  IF r.err # "ok" THEN Result(500, None, d, <<>>, <<>>)
             ELSE Result(200, Arr(SelectSeq(r.val, Mine)), d, <<>>, <<>>)

\* sst::list_backups: the records of backups whose collection is the user
\* name of the request.
list_backups(d, cf, U) ==
    IF ~cf_exists(d, cf) THEN Result(404, None, d, <<>>, <<>>)
    ELSE LET r == get_range_cf(d, BACKUPS_CF, <<>>, HighSentinel, usize_MAX, "Forward")
             Mine(backup) == backup.fields.collection = Str(U)
         IN  IF r.err # "ok" THEN Result(500, None, d, <<>>, <<>>)
             ELSE Result(200, Arr(SelectSeq(r.val, Mine)), d, <<>>, <<>>)

\* sst::list_restores: the records of restores whose collection is the
\* internal name of the request.
list_restores(d, cf, U) ==
    IF ~cf_exists(d, cf) THEN Result(404, None, d, <<>>, <<>>)
    ELSE LET r == get_range_cf(d, RESTORES_CF, <<>>, HighSentinel, usize_MAX, "Forward")
             Mine(restore) == restore.fields.collection = Str(cf)
         IN  IF r.err # "ok" THEN Result(500, None, d, <<>>, <<>>)
             ELSE Result(200, Arr(SelectSeq(r.val, Mine)), d, <<>>, <<>>)

\* GET /api/{U}/_backup and GET /api/{U}/_restore (without id).
ListRecords(t, route, U, secret, admin) ==
    LET req == Request("GET", route, U, None, secret, admin)
    IN  \E cf \in {internal_collection(req, db, None)} :
        \E res \in {IF ~require_auth(req, db) THEN Unauthorized(db)
                  ELSE IF route = "_backup" THEN list_backups(db, cf, U)
                  ELSE list_restores(db, cf, U)} :
            /\ Begin(t, req, cf, res)
            /\ UNCHANGED <<files, publishers, chans, sub, job, owner, owed, ids, hist>>

NextRec ==
    \/ \E s \in Tenants : CreateCollection("t1", <<"docs">>, s, "none", <<"g1">>)
    \/ \E s \in Tenants, fail \in {0, 1} : StartBackup(<<"docs">>, s, "none", fail)
    \/ \E id \in DOMAIN job, io \in BOOLEAN : BackupBlock(id, io)
    \/ \E id \in DOMAIN job : BackupUpdate(id, 0)
    \/ \E b \in BackupIds : StartRestore(<<"docs">>, <<"s1">>, "none", b, 0)
    \/ \E id \in DOMAIN job, io \in BOOLEAN : RestoreBlock(id, io, "replace")
    \/ \E id \in DOMAIN job : RestoreUpdate(id, 0)
    \/ \E route \in {"_backup", "_restore"}, s \in Tenants \cup {<<"s3">>} :
          ListRecords("t1", route, <<"docs">>, s, "none")

SpecRec == Init /\ [][NextRec]_vars

\* The set of the elements of a sequence.
Range(seq) == {seq[i] : i \in DOMAIN seq}

\* C24, as stated: a GET /api/docs/_backup answered 200 returns exactly the
\* backup records of docs whose status is completed.
C24_ListsCompletedOnly ==
    [][(Answers("GET", "_backup") /\ last'.status = 200)
          => Range(last'.out.items)
                = {db[BACKUPS_CF][id] : id \in
                      {i \in DOMAIN db[BACKUPS_CF] :
                          /\ db[BACKUPS_CF][i].fields.collection = Str(last'.U)
                          /\ db[BACKUPS_CF][i].fields.status = Completed}}]_vars

\* C24, amended: a GET /api/docs/_backup answered 200 returns, once each,
\* exactly the backup records stored for the collection name docs, whatever
\* their status: in_progress and failed records are returned too.
C24_ListsEveryStatus ==
    [][(Answers("GET", "_backup") /\ last'.status = 200)
          => LET mine == {i \in DOMAIN db[BACKUPS_CF] :
                             db[BACKUPS_CF][i].fields.collection = Str(last'.U)}
             IN  /\ Range(last'.out.items) = {db[BACKUPS_CF][i] : i \in mine}
                 /\ Len(last'.out.items) = Cardinality(mine)
                 /\ db' = db]_vars

\* C24 witness: the listing answered with two records, one completed and
\* one that is not.
C24_Witness ==
    /\ last.method = "GET" /\ last.route = "_backup" /\ last.status = 200
    /\ Len(last.out.items) = 2
    /\ \E i, j \in 1..2 :
          /\ last.out.items[i].fields.status = Completed
          /\ last.out.items[j].fields.status # Completed

\* C30: a GET /api/docs/_restore answered 200 to the tenant that started
\* the restores of docs returns every restore record stored for docs.
C30_RestoresListed ==
    [][(Answers("GET", "_restore") /\ last'.status = 200 /\ last'.secret = <<"s1">>)
          => \A id \in DOMAIN db[RESTORES_CF] :
                db[RESTORES_CF][id].fields.collection = Str(last'.U)
                   => db[RESTORES_CF][id] \in Range(last'.out.items)]_vars

\* ---------------------------------------------------------------------
\* Bulk imports of arrays that span several batches.

\* Longest uploaded array.
MaxImport == 3

\* The items of an uploaded array: an object and a string.
ImportItems == {Obj([t |-> Num(1)]), Str(<<"x">>)}

\* The uploaded arrays, the empty one included.
ImportArrays ==
    {Arr(items) : items \in UNION {[1..n -> ImportItems] : n \in 0..MaxImport}}

\* The key parameter: absent, a field every object has, a field none has.
KeyFields == {None, <<"t">>, <<"u">>}

\* The sets of batches whose write reports an error.
BatchFailures == SUBSET {1, 2}

NextImp ==
    \/ CreateCollection("t1", <<"docs">>, <<"s1">>, "none", <<"g1">>)
    \/ \E body \in ImportArrays \cup {Malformed, Null}, key_field \in KeyFields,
          io \in BatchFailures :
          Import("t1", <<"docs">>, <<"s1">>, "none", body, key_field, io)
    \/ PublishHas("t1")

SpecImp == Init /\ [][NextImp]_vars

\* The batch the item at position i (from 1) of an array of n items is
\* written in.
BatchOf(i, n) ==
    ((i - 1) \div (IF n < ImportBatchSize THEN n ELSE ImportBatchSize)) + 1

\* The positions of the object items of body whose batch is committed.
Committed(body, io) ==
    {i \in 1..Len(body.items) :
        IsObject(body.items[i]) /\ BatchOf(i, Len(body.items)) \notin io}

\* TRUE when the item has no string or number at key_field.
NeedsFallback(item, key_field) ==
    \/ key_field = None
    \/ get_nested_value(item, key_field).kind \notin {"string", "number"}

\* TRUE when the step is the import of body by the owner of docs.
Imports(body, key_field, io) ==
    /\ cf_exists(db, <<"na", "docs">>)
    /\ Import("t1", <<"docs">>, <<"s1">>, "none", body, key_field, io)

\* C25: after an import whose batches are all committed, every object item
\* without a usable key field is stored under item_{i}, i its position from
\* 1 in the uploaded array, so no two of them share a key.
C25_FallbackKeyIsPosition ==
    [][\A body \in ImportArrays, key_field \in KeyFields :
          Imports(body, key_field, {}) /\ last'.status = 201
             => \A i \in 1..Len(body.items) :
                   (IsObject(body.items[i]) /\ NeedsFallback(body.items[i], key_field))
                      => /\ item_key(i - 1) \in DOMAIN db'[<<"na", "docs">>]
                         /\ db'[<<"na", "docs">>][item_key(i - 1)] = body.items[i]]_vars

\* C26: an import of an array in which no item is written is answered 400,
\* publishes nothing and changes nothing; any other import is answered 201
\* with imported_count the number of object items in committed batches.
C26_NothingImported ==
    [][\A body \in ImportArrays, key_field \in KeyFields, io \in BatchFailures :
          Imports(body, key_field, io)
             => IF Committed(body, io) = {}
                THEN last'.status = 400 /\ task' = task /\ db' = db
                ELSE /\ last'.status = 201
                     /\ last'.out = Num(Cardinality(Committed(body, io)))]_vars

\* C28: an import answered 201 hands to publish one event per item of a
\* committed batch and none for the items of a batch whose write failed:
\* as many events as imported_count.
C28_EventsOfWrittenItems ==
    [][\A body \in ImportArrays, key_field \in KeyFields, io \in BatchFailures :
          Imports(body, key_field, io) /\ last'.status = 201
             => /\ task'["t1"].pc = "has"
                /\ Len(task'["t1"].evs) = Cardinality(Committed(body, io))
                /\ Num(Len(task'["t1"].evs)) = last'.out]_vars

\* ---------------------------------------------------------------------
\* Key requests on collections and keys that do not exist.

\* The headers of the key requests on docs: the owner's secret, or the
\* admin token alone.
KeyHeaders == {<<(<<"s1">>), "none">>, <<None, AdminToken>>}

\* The _batch bodies sent to docs: one item, none, and a body that is no
\* JSON.
MissBatches ==
    {Arr(<<BatchItem(<<"1">>, Obj([t |-> Num(1)]))>>), Arr(<<>>), Malformed}

NextMiss ==
    \/ CreateCollection("t1", <<"docs">>, <<"s1">>, "none", <<"g1">>)
    \/ DropCollection("t1", <<"docs">>, <<"s1">>, "none")
    \/ \E k \in Keys, h \in KeyHeaders, b \in PutBodies, io \in BOOLEAN :
          KeyPut("t1", <<"docs">>, k, h[1], h[2], b, io)
    \/ \E k \in Keys, h \in KeyHeaders : KeyGet("t1", <<"docs">>, k, h[1], h[2])
    \/ \E k \in Keys, h \in KeyHeaders : KeyHead("t1", <<"docs">>, k, h[1], h[2])
    \/ \E k \in Keys, h \in KeyHeaders, o \in DeleteOutcomes :
          KeyDelete("t1", <<"docs">>, k, h[1], h[2], o[1], o[2])
    \/ \E h \in KeyHeaders, b \in MissBatches, io \in BOOLEAN :
          Batch("t1", <<"docs">>, h[1], h[2], b, io)
    \/ PublishHas("t1")

SpecMiss == Init /\ [][NextMiss]_vars

\* The internal CF of a key request on docs carrying the headers h.
KeyCF(h) == internal_collection(Request("GET", "key", <<"docs">>, None, h[1], h[2]), db, None)

\* TRUE when the gate admits the key requests on docs carrying the headers h.
KeyAdmitted(h) == require_auth(Request("GET", "key", <<"docs">>, None, h[1], h[2]), db)

\* TRUE when the step answers 404, writes nothing and hands no event to
\* publish.
NotFoundQuietly == last'.status = 404 /\ db' = db /\ task' = task

SibNames == {<<"docs">>, <<"docs", "backups">>}

NextSib ==
    \/ \E U \in SibNames : CreateCollection("t1", U, <<"s1">>, "none", <<"g1">>)
    \/ DropCollection("t1", <<"docs", "backups", "backups">>, <<"s1">>, "none")
    \/ \E U \in SibNames : StartBackup(U, <<"s1">>, "none", 0)
    \/ \E id \in DOMAIN job, io \in BOOLEAN : BackupBlock(id, io)
    \/ \E id \in DOMAIN job : BackupUpdate(id, 0)
    \/ \E U \in SibNames : UploadBegin(U, <<"s1">>, "none", 0)
    \/ \E id \in DOMAIN job, body \in {"file", "none", "error"} : UploadEnd(id, body)

SpecSib == Init /\ [][NextSib]_vars

\* The per-collection backups CF of the collection a backup record of the
\* tenant s1 names.
OwnBackups(record) ==
    backup_cf(hash_collection_namespace(<<"s1">>) \o record.fields.collection.s)

\* C29: every record of backups whose start_backup or upload_backup is not
\* in flight is stored, identical, under the same id in the -backups CF of
\* its collection.
C29_CopiesAgree ==
    \A id \in DOMAIN db[BACKUPS_CF] :
        id \notin DOMAIN job
           => /\ cf_exists(db, OwnBackups(db[BACKUPS_CF][id]))
              /\ id \in DOMAIN db[OwnBackups(db[BACKUPS_CF][id])]
              /\ db[OwnBackups(db[BACKUPS_CF][id])][id] = db[BACKUPS_CF][id]

\* ---------------------------------------------------------------------
\* The resolver's legacy branch.

\* C31: whenever the secrets CF holds a row keyed by the user name U, a
\* non-creation request on U resolves to the first 8 characters of the
\* stored hash, followed by U.
C31_LegacyUsesStoredPrefix ==
    \A U \in NSNames :
        LET r == get_cf(db, SECRETS_CF, U)
        IN  (r.err = "ok" /\ IsSecret(r.val))
               => \A S \in SecretKeys \cup {None} :
                     ResolvedName("GET", S, U) = First8(r.val.fields.secret.s) \o U

\* C32: for every key request that the gate admits by its secret, the
\* internal name whose secrets row the gate verified is the internal name
\* the resolver attaches and the handler operates on.
C32_GateChecksHandlersName ==
    \A U \in NSNames, S \in SecretKeys, m \in {"GET", "PUT", "HEAD", "DELETE"} :
        LET req == Request(m, "key", U, <<"1">>, S, "none")
        IN  verify_collection_secret(req, db, GateInternal(req))
               => GateInternal(req) = internal_collection(req, db, None)

\* ---------------------------------------------------------------------
\* Concurrent subscribe calls.

\* C33: the subscribers whose streams are open on the same collection at
\* the same time hold receivers of one and the same channel.
C33_SubscribersShareChannel ==
    \A c \in Subs, e \in Subs :
        (sub[c].pc = "open" /\ sub[e].pc = "open" /\ sub[c].cf = sub[e].cf)
           => sub[c].chan = sub[e].chan

\* C35: the receiver of every open subscriber stream belongs to the sender
\* that the registry holds for the stream's collection.
C35_OpenOnRegisteredChannel ==
    \A c \in Subs :
        sub[c].pc = "open"
           => /\ sub[c].cf \in DOMAIN publishers
              /\ publishers[sub[c].cf] = sub[c].chan

\* ---------------------------------------------------------------------
\* Uploads of backups.

\* TRUE when the record id is stored with this status in backups and,
\* identical, in the CF own.
InBoth(d, own, id, status) ==
    /\ id \in DOMAIN d[BACKUPS_CF]
    /\ d[BACKUPS_CF][id].fields.status = status
    /\ cf_exists(d, own)
    /\ id \in DOMAIN d[own]
    /\ d[own][id] = d[BACKUPS_CF][id]

\* C34: when an upload is answered 201 its record is stored completed, with
\* the url of the uploaded file, in backups and in the collection's -backups
\* CF; when it is answered 400 the record is stored failed in both; and
\* while the -backups CF is in place an upload with a file part is answered
\* 201 and one without 400.
C34_UploadSynchronous ==
    [][\A id \in DOMAIN job, body \in {"file", "none", "error"} :
          UploadEnd(id, body)
             => LET own == backup_cf(job[id].cf)
                IN  /\ last'.status = 201
                       => /\ InBoth(db', own, id, Completed)
                          /\ db'[BACKUPS_CF][id].fields.url
                                = Str(backup_url(job[id].U, id))
                    /\ last'.status = 400 => InBoth(db', own, id, Failed)
                    /\ (body = "file" /\ cf_exists(db, own)) => last'.status = 201
                    /\ (body = "none" /\ cf_exists(db, own)) => last'.status = 400]_vars

\* C34 witness: an upload to docs-backups was answered 201; its -backups CF,
\* which no creation made (it has no secrets row), holds the completed
\* record that backups holds.
C34_Witness ==
    /\ last.method = "POST" /\ last.route = "_backup/upload" /\ last.status = 201
    /\ <<"na", "docs", "backups", "backups">> \notin DOMAIN db[SECRETS_CF]
    /\ InBoth(db, <<"na", "docs", "backups", "backups">>, nanoid(1), Completed)

\* ---------------------------------------------------------------------
\* Backups and restores across tenants.

\* C36: every document a GET with secret s2 (and no admin token) is
\* answered with is a document that requests carrying s2 wrote under that
\* key; nothing written with s1 becomes readable through s2, restores
\* included.
C36_RestoreStaysInTenant ==
    \A k \in Keys :
        LET req == Request("GET", "key", <<"docs">>, k, <<"s2">>, "none")
            res == key_get(db, internal_collection(req, db, None), k)
        IN  (require_auth(req, db) /\ res.status = 200)
               => /\ <<(<<"docs">>), k>> \in DOMAIN wrote[<<"s2">>]
                  /\ wrote[<<"s2">>][<<(<<"docs">>), k>>] = res.out

\* sst::backup_status: the global backup record stored under the id of the
\* query, whatever the collection of the path.
backup_status(d, backup_id) ==
    LET g == get_cf(d, BACKUPS_CF, backup_id)
    IN  IF g.err = "ok" /\ IsBackupRecord(g.val) THEN Result(200, g.val, d, <<>>, <<>>)
        ELSE IF g.err = "KeyNotFound" THEN Result(404, None, d, <<>>, <<>>)
        ELSE Result(500, None, d, <<>>, <<>>)

\* GET /api/{U}/_backup/status?id={backup_id}.
BackupStatus(t, U, secret, admin, backup_id) ==
    LET req == Request("GET", "_backup/status", U, backup_id, secret, admin)
    IN  \E cf \in {internal_collection(req, db, None)} :
        \E res \in {IF ~require_auth(req, db) THEN Unauthorized(db)
                  ELSE backup_status(db, backup_id)} :
            /\ Begin(t, req, cf, res)
            /\ UNCHANGED <<files, publishers, chans, sub, job, owner, owed, ids, hist>>

NextTen ==
    \/ \E s \in Tenants : CreateCollection("t1", <<"docs">>, s, "none", <<"g1">>)
    \/ \E s \in Tenants : StartBackup(<<"docs">>, s, "none", 0)
    \/ \E id \in DOMAIN job, io \in BOOLEAN : BackupBlock(id, io)
    \/ \E id \in DOMAIN job : BackupUpdate(id, 0)
    \/ \E s \in Tenants : ListRecords("t1", "_backup", <<"docs">>, s, "none")
    \/ \E s \in Tenants, i \in 1..MaxIds :
          BackupStatus("t1", <<"docs">>, s, "none", nanoid(i))

SpecTen == Init /\ [][NextTen]_vars

\* The backup records a response carries: the items of a listing, or the
\* one record of a status response.
ReturnedRecords(out) ==
    IF out.kind = "array" THEN Range(out.items) ELSE {out}

\* The backup with this id was made for the collection U of a tenant other
\* than the one whose secret is given: it is stored in that collection's
\* own backups CF.
MadeForOther(d, secret, U, id) ==
    \E s \in Tenants \ {secret} :
        LET own == backup_cf(hash_collection_namespace(s) \o U)
        IN  cf_exists(d, own) /\ id \in DOMAIN d[own]

\* C37: a GET /api/docs/_backup or GET /api/docs/_backup/status?id=
\* answered 200 to a request that carries one tenant's secret and no admin
\* token returns no backup record made for another tenant's collection.
C37_RecordsTenantScoped ==
    [][((Answers("GET", "_backup") \/ Answers("GET", "_backup/status"))
           /\ last'.status = 200 /\ ~last'.admin)
          => \A record \in ReturnedRecords(last'.out) :
                ~MadeForOther(db, last'.secret, last'.U, record.fields.id.s)]_vars

\* ---------------------------------------------------------------------
\* Collection creation and deletion on parallel workers: the handlers of
\* collection.rs run on WORKERS threads that share the store, and every
\* call of the storage facade is one step.  Consecutive reads of a handler
\* are taken in one step.

\* A request task inside create or drop: pc names the facade call it makes
\* next; an idle task keeps the request it answered last and the status.
HandlerTask(pc, cf, status, req, secret_key) ==
    [pc |-> pc, cf |-> cf, status |-> status, evs |-> <<>>, nw |-> 0, n |-> 0,
     sender |-> 0, req |-> req, secret_key |-> secret_key]

\* The handler of task t returns: the response is written and the task is
\* idle again.
Reply(t, status, out, d) ==
    /\ db' = d
    /\ last' = [Answer(task[t].req, status, d = db) EXCEPT !.out = out]
    /\ task' = [task EXCEPT ![t] =
                   HandlerTask("idle", task[t].cf, status, task[t].req,
                               task[t].secret_key)]

\* The handler of task t goes on to its next facade call.
Goto(t, pc, d) ==
    /\ db' = d
    /\ task' = [task EXCEPT ![t].pc = pc]
    /\ UNCHANGED last

\* PUT /api/{U}: gate, resolver and create's look for the CF
\* (collection.rs:95-97).
CreateEnter(t, U, secret, admin, gen) ==
    LET req == Request("PUT", "collection", U, None, secret, admin)
        cf == internal_collection(req, db, gen)
        status == IF ~require_auth(req, db) THEN 401
                  ELSE IF cf_exists(db, cf) THEN 409 ELSE 0
    IN  /\ task[t].pc = "idle"
        /\ secret = None => \A x \in DOMAIN owner : owner[x] # gen
        /\ task' = [task EXCEPT ![t] =
                       HandlerTask(IF status = 0 THEN "create_cf" ELSE "idle", cf,
                                   status, req, CreationSecret(req, gen))]
        /\ last' = IF status = 0 THEN last ELSE Answer(req, status, TRUE)
        /\ UNCHANGED <<db, files, publishers, chans, sub, job, wrote, owner, owed,
                       ids, hist>>

\* db.create_cf(collection_name)? (collection.rs:112-113).
CreateBaseCF(t) ==
    /\ task[t].pc = "create_cf"
    /\ LET r == create_cf(db, task[t].cf)
       IN  IF r.err # "ok" THEN Reply(t, 500, None, db)
           ELSE Goto(t, "create_backups_cf", r.db)
    /\ UNCHANGED <<files, publishers, chans, sub, job, wrote, owner, owed, ids, hist>>

\* db.create_cf("{collection_name}-backups"), an error is logged
\* (collection.rs:115-117).
CreateBackupsCF(t) ==
    /\ task[t].pc = "create_backups_cf"
    /\ Goto(t, "insert_secret", create_cf(db, task[t].cf \o <<"backups">>).db)
    /\ UNCHANGED <<files, publishers, chans, sub, job, wrote, owner, owed, ids, hist>>

\* db.insert_cf(SECRETS_CF, collection_name, &secret), an error is
\* unwrap()ed (collection.rs:119-126).
InsertSecret(t) ==
    /\ task[t].pc = "insert_secret"
    /\ LET r == insert_cf(db, SECRETS_CF, task[t].cf, create_secret(task[t].secret_key))
       IN  IF r.err # "ok" THEN Reply(t, 500, None, db)
           ELSE Goto(t, "insert_backups_secret", r.db)
    /\ UNCHANGED <<files, publishers, chans, sub, job, wrote, owner, owed, ids, hist>>

\* db.insert_cf(SECRETS_CF, "{collection_name}-backups", &secret) and the
\* 201 response (collection.rs:128-139).
InsertBackupsSecret(t) ==
    /\ task[t].pc = "insert_backups_secret"
    /\ LET r == insert_cf(db, SECRETS_CF, task[t].cf \o <<"backups">>,
                          create_secret(task[t].secret_key))
       IN  IF r.err # "ok"
           THEN Reply(t, 500, None, db) /\ UNCHANGED owner
           ELSE /\ Reply(t, 201, task[t].secret_key, r.db)
                /\ owner' = Bind(Bind(owner, task[t].cf, task[t].secret_key),
                                 task[t].cf \o <<"backups">>, task[t].secret_key)
    /\ UNCHANGED <<files, publishers, chans, sub, job, wrote, owed, ids, hist>>

\* DELETE /api/{U}: gate, resolver and drop's looks for the CF and, for a
\* name that contains -backups, for its base (collection.rs:142-157).
DropEnter(t, U, secret, admin) ==
    LET req == Request("DELETE", "collection", U, None, secret, admin)
        cf == internal_collection(req, db, None)
        status == IF ~require_auth(req, db) THEN 401
                  ELSE IF ~cf_exists(db, cf) THEN 404
                  ELSE IF contains_backups(U) /\ cf_exists(db, replace_backups(cf))
                       THEN 200
                  ELSE 0
    IN  /\ task[t].pc = "idle"
        /\ task' = [task EXCEPT ![t] =
                       HandlerTask(IF status = 0 THEN "drop_cf" ELSE "idle", cf,
                                   status, req, None)]
        /\ last' = IF status = 0 THEN last
                   ELSE [Answer(req, status, TRUE) EXCEPT
                            !.out = IF status = 200 THEN <<"refused">> ELSE None]
        /\ UNCHANGED <<db, files, publishers, chans, sub, job, wrote, owner, owed,
                       ids, hist>>

\* db.drop_cf(internal_collection)? and the 200 response
\* (collection.rs:158-172).
DropCF(t) ==
    /\ task[t].pc = "drop_cf"
    /\ LET r == drop_cf(db, task[t].cf)
       IN  IF r.err # "ok" THEN Reply(t, 500, None, db)
           ELSE Reply(t, 200, <<"deleted">>, r.db)
    /\ UNCHANGED <<files, publishers, chans, sub, job, wrote, owner, owed, ids, hist>>

\* The user names of a collection and of its backups collection.
GapNames == {<<"docs">>, <<"docs", "backups">>}

NextGap ==
    \/ \E t \in Tasks : CreateEnter(t, <<"docs">>, <<"s1">>, "none", <<"g1">>)
    \/ \E t \in Tasks : CreateBaseCF(t)
    \/ \E t \in Tasks : CreateBackupsCF(t)
    \/ \E t \in Tasks : InsertSecret(t)
    \/ \E t \in Tasks : InsertBackupsSecret(t)
    \/ \E t \in Tasks, U \in GapNames : DropEnter(t, U, <<"s1">>, "none")
    \/ \E t \in Tasks : DropCF(t)
    \/ StartBackup(<<"docs">>, <<"s1">>, "none", 0)
    \/ \E id \in DOMAIN job, io \in BOOLEAN : BackupBlock(id, io)
    \/ \E id \in DOMAIN job : BackupUpdate(id, 0)

SpecGap == Init /\ [][NextGap]_vars

\* C38: whenever the CF of a tenant's collection docs exists, its sibling
\* -backups CF exists too.
C38_SiblingExists ==
    \A s \in Tenants :
        LET base == hash_collection_namespace(s) \o <<"docs">>
        IN  cf_exists(db, base) => cf_exists(db, backup_cf(base))

\* Two workers, each with one PUT /api/docs of a tenant or without a
\* secret, on a store without collections.
NextRace ==
    \/ \E t \in Tasks, s \in Tenants \cup {None} :
          task[t].status = 0 /\ CreateEnter(t, <<"docs">>, s, "none", <<"g1">>)
    \/ \E t \in Tasks : CreateBaseCF(t)
    \/ \E t \in Tasks : CreateBackupsCF(t)
    \/ \E t \in Tasks : InsertSecret(t)
    \/ \E t \in Tasks : InsertBackupsSecret(t)

SpecRace == Init /\ [][NextRace]_vars

\* Task t has answered its PUT /api/{U}.
Answered(t) == task[t].pc = "idle" /\ task[t].status # 0

\* C39: when two PUT /api/docs with the same secret for a collection that
\* did not exist have both been answered, one answer is 201 and the other
\* 409, and the CF, its sibling and both secrets rows exist.
C39_OneCreatesOtherConflicts ==
    \A t \in Tasks, u \in Tasks :
        (/\ t # u /\ Answered(t) /\ Answered(u)
         /\ task[t].req.secret # None /\ task[t].req = task[u].req)
           => /\ {task[t].status, task[u].status} = {201, 409}
              /\ cf_exists(db, task[t].cf) /\ cf_exists(db, backup_cf(task[t].cf))
              /\ task[t].cf \in DOMAIN db[SECRETS_CF]
              /\ backup_cf(task[t].cf) \in DOMAIN db[SECRETS_CF]

====
